---------------------------- MODULE Spec2Model ----------------------------
(***************************************************************************)
(* BambooHoldSpeech: the confidential risk classifier, the record ledger   *)
(* and the authorization ledger of the contract, and the client's          *)
(* disclosure handshake.                                                   *)
(*                                                                         *)
(* An encrypted value is modelled by its handle (a natural number, 0 for   *)
(* the uninitialised handle) and the coprocessor's ciphertext store        *)
(* `cipher`, which maps a handle to the plaintext it encrypts.  The FHE    *)
(* library operations are modelled by their arithmetic on the plaintexts   *)
(* at the width of the encrypted type.                                     *)
(***************************************************************************)
EXTENDS Integers, Sequences, FiniteSets, TLC

(***************************************************************************)
(* Bounds of the model.                                                    *)
(***************************************************************************)
NumUsers == 2
MaxSubmissions == 3
MaxInputs == 2
MaxTime == 2
MaxSessions == 1
MaxRequests == 2

(***************************************************************************)
(* Program constants.                                                      *)
(***************************************************************************)
MaxMetric == 100
MODERATE_THRESHOLD == 1110
HIGH_RISK_THRESHOLD == 1850

\* address(this): the contract's own address.  Users are 1..NumUsers.
This == 0
Users == 1..NumUsers

\* The handle of an uninitialised euint (Solidity's zero value).
NoHandle == 0
\* cipher[h] of a handle that no ciphertext has been produced for.
NoCipher == -1

VARIABLES
    userHistory,      \* mapping(address => MetricsRecord[])
    latestMetrics,    \* mapping(address => MetricsRecord)
    submissionCount,  \* mapping(address => uint256)
    acl,              \* the ACL's persistent allowances: pairs <<handle, account>>
    cipher,           \* the coprocessor's ciphertexts: handle -> plaintext
    encrypted,        \* the encrypted inputs clients have produced, with their proofs
    now,              \* block.timestamp
    events,           \* the contract's event log
    commitLog,        \* history variable: the committed submissions, in commit order
    cIn,              \* classifier run: the three plaintext inputs
    cOut,             \* classifier run: the values _calculateRiskScore computes
                      \* (trace) and the pair it returns (ret)
    cPc,              \* classifier run: "idle" | "encrypted" | "done"
    session,          \* the client's userDecryptBatch call in progress
    keysGenerated,    \* how many ephemeral keypairs generateKeypair has produced
    signatureCache,   \* localStorage: the items under SIGNATURE_CACHE_PREFIX
    wallet,           \* useMetaMaskProvider: persisted and runtime wallet state
    fhevm,            \* FhevmProvider: its props, its state, its init() runs
    tx,               \* useBambooHoldSpeech: txStatus, txError, the calls in flight
    sdk,              \* the SDK script element, window.relayerSDK, the calls of the loader
    storage,          \* localStorage: its keys in the order of key(i), and the last call
    summaryPage,      \* the summary page: the run of loadSummary and the distribution
    lastCall          \* the outcome of the transaction mined last

ledgerVars == <<userHistory, latestMetrics, submissionCount, acl, cipher,
                encrypted, now, events, commitLog>>
classVars == <<cIn, cOut, cPc>>
pageVars == <<fhevm, tx, sdk, storage, summaryPage>>
browserVars == <<signatureCache, wallet, pageVars>>
discVars == <<session, keysGenerated, browserVars>>
\* Everything but the outcome of the last transaction.
stateVars == <<ledgerVars, classVars, discVars>>
vars == <<userHistory, latestMetrics, submissionCount, acl, cipher,
          encrypted, now, events, commitLog, cIn, cOut, cPc,
          session, keysGenerated, signatureCache, wallet, fhevm, tx, sdk,
          storage, summaryPage, lastCall>>

(***************************************************************************)
(* The FHE library, by what each operation does to the plaintexts.         *)
(***************************************************************************)
FHE_asEuint8(v) == v % (2^8)
FHE_asEuint16(v) == v % (2^16)
\* euint16 -> euint32 cast: zero extension, the value reduced to 32 bits
\* (computed on its two 16-bit halves).
FHE_asEuint32(x) == (((x \div (2^16)) % (2^16)) * (2^16)) + (x % (2^16))
\* Mutant: the product held in 8 bits.
FHE_mul8(a, b) == (a * b) % (2^8)
\* euint16 * euint16 and euint16 + euint16 wrap modulo 2^16.
FHE_mul(a, b) == (a * b) % (2^16)
\* Mutant: a sum that is not reduced to 16 bits.
FHE_addWide(a, b) == a + b
FHE_add(a, b) == (a + b) % (2^16)
\* Mutant: a strict comparison in place of FHE.ge.
FHE_gt(a, b) == a > b
FHE_ge(a, b) == a >= b
FHE_select(c, a, b) == IF c THEN a ELSE b

(***************************************************************************)
(* _calculateRiskScore: every value the function computes, in its order.   *)
(***************************************************************************)
RiskTrace(emotional, social, sleep) ==
    LET emotionalWeighted == FHE_mul(emotional, FHE_asEuint16(12))
        socialWeighted == FHE_mul(social, FHE_asEuint16(10))
        sleepWeighted == FHE_mul(sleep, FHE_asEuint16(15))
        partialWeighted == FHE_add(emotionalWeighted, socialWeighted)
        totalWeighted == FHE_add(partialWeighted, sleepWeighted)
        riskScore == FHE_asEuint32(totalWeighted)
        isHighRisk == FHE_ge(totalWeighted, FHE_asEuint16(HIGH_RISK_THRESHOLD))
        isModerateRisk == FHE_ge(totalWeighted, FHE_asEuint16(MODERATE_THRESHOLD))
        level0 == FHE_asEuint8(0)
        level1 == FHE_asEuint8(1)
        level2 == FHE_asEuint8(2)
        firstSelect == FHE_select(isHighRisk, level2, level1)
        cautionWindow == FHE_select(isModerateRisk, firstSelect, level0)
    IN  [emotionalWeighted |-> emotionalWeighted,
         socialWeighted |-> socialWeighted,
         sleepWeighted |-> sleepWeighted,
         partialWeighted |-> partialWeighted,
         totalWeighted |-> totalWeighted,
         riskScore |-> riskScore,
         isHighRisk |-> isHighRisk,
         isModerateRisk |-> isModerateRisk,
         cautionWindow |-> cautionWindow]

\* Mutant: the score taken before the sleep term is added.
CalculateWithoutSleep(emotional, social, sleep) ==
    LET t == RiskTrace(emotional, social, sleep)
    IN  [riskScore |-> FHE_asEuint32(t.partialWeighted),
         cautionWindow |-> t.cautionWindow]

\* Mutant: the block timestamp leaks into the score.
CalculateWithTimestamp(emotional, social, sleep) ==
    LET t == RiskTrace(emotional, social, sleep)
    IN  [riskScore |-> FHE_asEuint32(FHE_add(t.totalWeighted, now)),
         cautionWindow |-> t.cautionWindow]

\* The function's two return values.
_calculateRiskScore(emotional, social, sleep) ==
    LET t == RiskTrace(emotional, social, sleep)
    IN  [riskScore |-> t.riskScore, cautionWindow |-> t.cautionWindow]

(***************************************************************************)
(* Records, handles and the ACL.                                           *)
(***************************************************************************)
\* The zero value of MetricsRecord: what a mapping holds before any write.
EmptyRecord ==
    [emotionalFluctuation |-> NoHandle, socialFatigue |-> NoHandle,
     sleepDebt |-> NoHandle, riskScore |-> NoHandle,
     cautionWindow |-> NoHandle, timestamp |-> 0]

\* The five handles of a record.
RecordHandles(r) ==
    {r.emotionalFluctuation, r.socialFatigue, r.sleepDebt, r.riskScore,
     r.cautionWindow}

\* Handles are content-derived: the k-th encrypted input has the three input
\* handles 5(k-1)+1..5(k-1)+3, and the coprocessor derives the handles of the
\* score and the tier from the operands, 5(k-1)+4 and 5(k-1)+5.
HandleOf(k, field) == 5 * (k - 1) + field
MaxHandle == 5 * MaxInputs
Handles == 0..MaxHandle

\* Mutant: a grant that is already there is taken away.
FHE_allowToggle(ledger, hs, account) ==
    LET new == {<<h, account>> : h \in hs}
    IN  (ledger \ new) \cup (new \ ledger)

\* FHE.allow(handle, account), for a set of handles.
FHE_allow(ledger, hs, account) == ledger \cup {<<h, account>> : h \in hs}
\* ACL lookup.
isAuthorized(h, account) == <<h, account>> \in acl
\* The plaintext a handle's ciphertext decrypts to.
Plain(h) == cipher[h]

\* The inputs clients encrypt in the ledger runs: one of the moderate tier
\* (scaled total 1200) and one of the high tier (scaled total 3700).
SampleInputs == {<<MaxMetric, 0, 0>>, <<MaxMetric, MaxMetric, MaxMetric>>}

(***************************************************************************)
(* The disclosure session: the local state of one userDecryptBatch call.   *)
(***************************************************************************)
\* account === null in the provider context.
NoAccount == -1
\* No contract address given (undefined).
NoContract == -2
\* No keypair generated (keypairs are numbered from 1).
NoKey == 0
DurationDays == 365
AddressLength == 42

NoStatement ==
    [publicKey |-> NoKey, contractAddresses |-> <<>>, startTimestamp |-> 0,
     durationDays |-> 0]
NoSignature == [signer |-> NoAccount, message |-> NoStatement]
\* No call of fhevmInstance.userDecrypt made.
NoRequest ==
    [pairs |-> <<>>, publicKey |-> NoKey, signature |-> NoSignature,
     contractAddresses |-> <<>>, userAddress |-> NoAccount,
     startTimestamp |-> 0, durationDays |-> 0]

IdleSession ==
    [pc |-> "Idle", stages |-> <<>>, user |-> NoAccount, handles |-> <<>>,
     keypair |-> NoKey, statement |-> NoStatement, signature |-> NoSignature,
     sigRequests |-> 0, oracleCalls |-> 0, result |-> <<>>, error |-> "",
     grantedAtCheck |-> FALSE, incomplete |-> FALSE, request |-> NoRequest]

\* The contractAddress argument: whether it is a non-empty string, whether
\* it starts with "0x", its length, and the account it names.
ContractThis ==
    [given |-> TRUE, prefix0x |-> TRUE, length |-> AddressLength, account |-> This]
ContractArgs ==
    {ContractThis,
     [given |-> TRUE, prefix0x |-> FALSE, length |-> AddressLength, account |-> This],
     [given |-> TRUE, prefix0x |-> TRUE, length |-> AddressLength - 2, account |-> This],
     [given |-> FALSE, prefix0x |-> FALSE, length |-> 0, account |-> This]}

(***************************************************************************)
(* Initial state: a freshly deployed contract, nothing encrypted yet.      *)
(***************************************************************************)
LedgerInit ==
    /\ userHistory = [u \in Users |-> <<>>]
    /\ latestMetrics = [u \in Users |-> EmptyRecord]
    /\ submissionCount = [u \in Users |-> 0]
    /\ acl = {}
    /\ cipher = [h \in Handles |-> NoCipher]
    /\ encrypted = <<>>
    /\ now = 1
    /\ events = <<>>
    /\ commitLog = <<>>

\* The classifier's values before a run.
NoTrace ==
    [emotionalWeighted |-> 0, socialWeighted |-> 0, sleepWeighted |-> 0,
     partialWeighted |-> 0, totalWeighted |-> 0, riskScore |-> 0,
     isHighRisk |-> FALSE, isModerateRisk |-> FALSE, cautionWindow |-> 0]

ClassIdle ==
    /\ cIn = <<0, 0, 0>>
    /\ cOut = [trace |-> NoTrace, ret |-> [riskScore |-> 0, cautionWindow |-> 0]]
    /\ cPc = "idle"

\* The wallet hook: rdns names of the wallets a page may discover, the
\* chains a wallet may be on, and what a wallet may answer to a request.
NoConnector == "null"
Connectors == {"io.metamask", "com.example.wallet"}
NoChain == 0
Chains == {31337, 11155111}
AccountLists == {<<>>} \cup {<<a>> : a \in Users}
\* accounts[0]: undefined for the empty list.
First(accounts) == IF accounts = <<>> THEN NoAccount ELSE accounts[1]

\* No silentReconnect / connect call in flight.
IdleCall == [pc |-> "idle", provider |-> NoConnector, lastAccounts |-> <<>>,
             accounts |-> <<>>, outcome |-> "none"]
\* The runtime state of a page just loaded.
WalletStateInit ==
    [isConnected |-> FALSE, account |-> NoAccount, chainId |-> NoChain,
     provider |-> NoConnector]

\* The hook on the first load of the page: nothing persisted, no wallet
\* discovered yet, the effects about to run.
WalletInit ==
    wallet = [connected |-> FALSE, lastConnectorId |-> NoConnector,
              lastAccounts |-> <<>>, lastChainId |-> NoChain,
              walletState |-> WalletStateInit,
              isConnecting |-> FALSE, error |-> "null",
              providers |-> <<>>, listeners |-> {},
              effectPending |-> TRUE,
              reconnect |-> IdleCall, connecting |-> IdleCall,
              requests |-> {}]

\* FhevmProvider mounted by a page with no wallet connected: the effect has
\* run once and returned at its first check.
NoInstance == 0
\* The two functions of useBambooHoldSpeech that send a transaction.
TxOps == {"submitMetrics", "reauthorizeAllRecords"}

\* The page just loaded, no wallet connected, no transaction sent.
PageInit ==
    /\ fhevm = [props |-> [provider |-> NoConnector, chainId |-> NoChain,
                           contractAddress |-> NoContract],
                fhevmInstance |-> NoInstance, isInitialized |-> FALSE,
                isInitializing |-> FALSE, error |-> "null", runs |-> <<>>]
    /\ tx = [txStatus |-> "idle", txError |-> "null",
             pc |-> [op \in TxOps |-> "idle"],
             outcome |-> [op \in TxOps |-> "none"],
             calls |-> 0, overlapped |-> FALSE]
    /\ sdk = [scripts |-> 0, script |-> "none", relayerSDK |-> FALSE,
              calls |-> <<>>]
    /\ storage = [keys |-> <<>>, op |-> "none", before |-> <<>>]
    /\ summaryPage = [pc |-> "idle", count |-> 0, maxRecords |-> 0, i |-> 0,
                      safeCount |-> 0, moderateCount |-> 0, highCount |-> 0,
                      read |-> <<>>, isLoading |-> FALSE,
                      distribution |-> [safe |-> 0, moderate |-> 0, high |-> 0]]

\* A hook or a module of the page writes its own state only.
PageFrame(own) ==
    /\ UNCHANGED <<ledgerVars, classVars, session, keysGenerated,
                   signatureCache, wallet, lastCall>>
    /\ IF own = "fhevm" THEN TRUE ELSE UNCHANGED fhevm
    /\ IF own = "tx" THEN TRUE ELSE UNCHANGED tx
    /\ IF own = "sdk" THEN TRUE ELSE UNCHANGED sdk
    /\ IF own = "storage" THEN TRUE ELSE UNCHANGED storage
    /\ IF own = "summaryPage" THEN TRUE ELSE UNCHANGED summaryPage

SessionInit ==
    /\ session = IdleSession
    /\ keysGenerated = 0
    /\ signatureCache = {}
    /\ WalletInit
    /\ PageInit

\* No transaction has been sent to the contract yet.
NoCall == [op |-> "none", sender |-> NoAccount, arg |-> 0, ok |-> TRUE, error |-> ""]

CallInit == lastCall = NoCall

Init == LedgerInit /\ ClassIdle /\ SessionInit /\ CallInit

(***************************************************************************)
(* Client: createEncryptedInput(contract, account).add16 x 3 .encrypt()    *)
(***************************************************************************)
Encrypt(user, in) ==
    /\ Len(encrypted) < MaxInputs
    /\ LET k == Len(encrypted) + 1
       IN  /\ encrypted' = Append(encrypted, [user |-> user, contract |-> This,
                                               plain |-> in])
           /\ cipher' = [cipher EXCEPT ![HandleOf(k, 1)] = FHE_asEuint16(in[1]),
                                       ![HandleOf(k, 2)] = FHE_asEuint16(in[2]),
                                       ![HandleOf(k, 3)] = FHE_asEuint16(in[3])]
    /\ UNCHANGED <<userHistory, latestMetrics, submissionCount, acl, now,
                   events, commitLog, cIn, cOut, cPc, discVars>>

\* Whether the user has encrypted an input (in the runs of the disclosure
\* protocol and of the recorded calls each user encrypts at most one).
HasEncrypted(u) == \E k \in 1..Len(encrypted) : encrypted[k].user = u

\* Mutant: the proof is not checked against the sender.
ProofAcceptedFromAnyone(sender, k) == encrypted[k].contract = This

\* Mutant: the proof is not checked at all.
ProofNotChecked(sender, k) == TRUE

\* FHE.fromExternal: the proof binds the handles to the contract and the
\* user that encrypted them.
ProofAccepted(sender, k) ==
    /\ encrypted[k].user = sender
    /\ encrypted[k].contract = This

(***************************************************************************)
(* submitMetrics                                                           *)
(***************************************************************************)
\* Mutant: the record is stored without the block timestamp.
SubmitRecordUnstamped(k, score, tier, ts) ==
    [emotionalFluctuation |-> HandleOf(k, 1), socialFatigue |-> HandleOf(k, 2),
     sleepDebt |-> HandleOf(k, 3), riskScore |-> score,
     cautionWindow |-> tier, timestamp |-> 0]

\* MetricRecord({..., timestamp: uint32(block.timestamp)})
SubmitRecord(k, score, tier, ts) ==
    [emotionalFluctuation |-> HandleOf(k, 1), socialFatigue |-> HandleOf(k, 2),
     sleepDebt |-> HandleOf(k, 3), riskScore |-> score,
     cautionWindow |-> tier, timestamp |-> ts]

\* Mutant: the record inserted at the front of the array.
PrependRecord(history, record) == <<record>> \o history

\* Mutant: a full array keeps its length, the new record overwrites the last.
PushOverLast(history, record) ==
    IF Len(history) >= 1
    THEN [history EXCEPT ![Len(history)] = record]
    ELSE Append(history, record)

\* userHistory[msg.sender].push(record)
PushRecord(history, record) == Append(history, record)

\* Mutant: latest written only by the first submission.
StoreLatestOnce(latest, sender, record) ==
    IF latest[sender].timestamp = 0 THEN [latest EXCEPT ![sender] = record]
    ELSE latest

\* Mutant: the record is written to every user's slot.
StoreLatestAll(latest, sender, record) == [u \in DOMAIN latest |-> record]

\* latestMetrics[msg.sender] = record
StoreLatest(latest, sender, record) == [latest EXCEPT ![sender] = record]

\* Mutant: the counter is not incremented.
KeepCount(count, sender) == count

\* submissionCount[msg.sender]++
IncrementCount(count, sender) == [count EXCEPT ![sender] = @ + 1]

\* Mutant: the grants for the contract address are left out.
RecordGrantsAccountOnly(ledger, record, account) ==
    FHE_allow(ledger, RecordHandles(record), account)

\* Mutant: the ledger is rebuilt from the grants of this record.
RecordGrantsReset(ledger, record, account) ==
    FHE_allow(FHE_allow({}, RecordHandles(record), account),
              RecordHandles(record), This)

\* The allowances on the five handles of a record, for the account and for
\* the contract (allowThis and allow(.., address(this)) are the same grant).
RecordGrants(ledger, record, account) ==
    FHE_allow(FHE_allow(ledger, RecordHandles(record), account),
              RecordHandles(record), This)

\* Mutant: the event carries the array length, not the index.
SubmitEventsLength(sender, ts, length) ==
    <<[name |-> "MetricsSubmitted", user |-> sender, timestamp |-> ts,
       recordIndex |-> length],
      [name |-> "CautionWindowUpdated", user |-> sender, timestamp |-> ts]>>

\* The two events of a submission.
SubmitEvents(sender, ts, length) ==
    <<[name |-> "MetricsSubmitted", user |-> sender, timestamp |-> ts,
       recordIndex |-> length - 1],
      [name |-> "CautionWindowUpdated", user |-> sender, timestamp |-> ts]>>

\* The transaction is mined in the current block (dt = 0) or in a later one.
submitMetrics(sender, k, dt) ==
    /\ k \in 1..Len(encrypted)
    /\ Len(commitLog) < MaxSubmissions
    /\ now + dt <= MaxTime
    /\ IF ~ProofAccepted(sender, k)
       THEN dt = 0 /\ UNCHANGED stateVars
       ELSE LET r == _calculateRiskScore(cipher[HandleOf(k, 1)],
                                         cipher[HandleOf(k, 2)],
                                         cipher[HandleOf(k, 3)])
                record == SubmitRecord(k, HandleOf(k, 4), HandleOf(k, 5), now + dt)
            IN  /\ now' = now + dt
                /\ cipher' = [cipher EXCEPT ![HandleOf(k, 4)] = r.riskScore,
                                            ![HandleOf(k, 5)] = r.cautionWindow]
                /\ userHistory' = [userHistory EXCEPT
                                     ![sender] = PushRecord(@, record)]
                /\ latestMetrics' = StoreLatest(latestMetrics, sender, record)
                /\ submissionCount' = IncrementCount(submissionCount, sender)
                /\ acl' = RecordGrants(acl, record, sender)
                /\ events' = events \o
                     SubmitEvents(sender, now', Len(userHistory'[sender]))
                /\ commitLog' = Append(commitLog, [user |-> sender, record |-> record])
                /\ UNCHANGED <<encrypted, cIn, cOut, cPc, discVars>>

(***************************************************************************)
(* reauthorizeRecord / reauthorizeAllRecords                               *)
(***************************************************************************)
\* Mutant: the history of the first user, whoever calls.
ReauthorizeFirstUser(sender) == 1

\* Whose history a reauthorize call reads: the caller's.
ReauthorizeTarget(sender) == sender

reauthorizeRecord(sender, index) ==
    LET history == userHistory[ReauthorizeTarget(sender)]
    IN  IF ~(index < Len(history))
        THEN UNCHANGED stateVars
        ELSE LET record == history[index + 1]
                 a1 == RecordGrants(acl, record, sender)
                 a2 == IF index = Len(history) - 1
                       THEN RecordGrants(a1, latestMetrics[ReauthorizeTarget(sender)],
                                         sender)
                       ELSE a1
             IN  /\ acl' = a2
                 /\ UNCHANGED <<userHistory, latestMetrics, submissionCount,
                                cipher, encrypted, now, events, commitLog,
                                cIn, cOut, cPc, discVars>>

\* The loop of reauthorizeAllRecords, from index i to count - 1.
RECURSIVE ReauthorizeLoop(_, _, _, _, _)
ReauthorizeLoop(ledger, history, sender, i, count) ==
    IF i < count
    THEN ReauthorizeLoop(RecordGrants(ledger, history[i + 1], sender),
                         history, sender, i + 1, count)
    ELSE ledger

reauthorizeAllRecords(sender) ==
    LET history == userHistory[ReauthorizeTarget(sender)]
        count == Len(history)
        a1 == ReauthorizeLoop(acl, history, sender, 0, count)
        a2 == IF count > 0
              THEN RecordGrants(a1, latestMetrics[ReauthorizeTarget(sender)], sender)
              ELSE a1
    IN  /\ acl' = a2
        /\ UNCHANGED <<userHistory, latestMetrics, submissionCount, cipher,
                       encrypted, now, events, commitLog, cIn, cOut, cPc, discVars>>

(***************************************************************************)
(* The view functions, by their return value for the caller.               *)
(***************************************************************************)
getHistoryCount(sender) == Len(userHistory[sender])

\* Mutant: the bound check admits index = length.
getMetricsAtIndexInclusive(sender, index) ==
    IF index <= Len(userHistory[sender])
    THEN [ok |-> TRUE,
          record |-> IF index < Len(userHistory[sender])
                     THEN userHistory[sender][index + 1] ELSE EmptyRecord]
    ELSE [ok |-> FALSE, error |-> "Index out of bounds"]

getMetricsAtIndex(sender, index) ==
    IF index < Len(userHistory[sender])
    THEN [ok |-> TRUE, record |-> userHistory[sender][index + 1]]
    ELSE [ok |-> FALSE, error |-> "Index out of bounds"]

\* Mutant: the tier is returned without the check.
getCautionWindowUnchecked(sender) ==
    [ok |-> TRUE, ret |-> latestMetrics[sender].cautionWindow]

getCautionWindow(sender) ==
    IF latestMetrics[sender].timestamp > 0
    THEN [ok |-> TRUE, ret |-> latestMetrics[sender].cautionWindow]
    ELSE [ok |-> FALSE, error |-> "No metrics submitted yet"]

\* Mutant: the check passes once anyone has submitted.
getRiskScoreAnyone(sender) ==
    IF \E u \in Users : latestMetrics[u].timestamp > 0
    THEN [ok |-> TRUE, ret |-> latestMetrics[sender].riskScore]
    ELSE [ok |-> FALSE, error |-> "No metrics submitted yet"]

getRiskScore(sender) ==
    IF latestMetrics[sender].timestamp > 0
    THEN [ok |-> TRUE, ret |-> latestMetrics[sender].riskScore]
    ELSE [ok |-> FALSE, error |-> "No metrics submitted yet"]

getLatestMetrics(sender) ==
    IF latestMetrics[sender].timestamp > 0
    THEN LET record == latestMetrics[sender]
         IN  [ok |-> TRUE,
              ret |-> <<record.emotionalFluctuation, record.socialFatigue,
                        record.sleepDebt, record.timestamp>>]
    ELSE [ok |-> FALSE, error |-> "No metrics submitted yet"]

\* Mutant: the total derived from the timestamp, not read from the counter.
getSummaryFlag(sender) ==
    [totalSubmissions |-> IF latestMetrics[sender].timestamp > 0 THEN 1 ELSE 0,
     lastTimestamp |-> latestMetrics[sender].timestamp]

getSummary(sender) ==
    [totalSubmissions |-> submissionCount[sender],
     lastTimestamp |-> latestMetrics[sender].timestamp]

getLastUpdateTimestamp(sender) == latestMetrics[sender].timestamp

\* The external view functions, and how a call of each ends for the caller:
\* whether it returns, and the reason string when it reverts.
Accessors ==
    {"getRiskScore", "getCautionWindow", "getLatestMetrics", "getMetricsAtIndex",
     "getHistoryCount", "getSummary", "getLastUpdateTimestamp"}

Returned == [ok |-> TRUE, error |-> ""]

AccessorOutcome(op, sender, index) ==
    LET Outcome(r) == IF r.ok THEN Returned ELSE [ok |-> FALSE, error |-> r.error]
    IN  CASE op = "getRiskScore" -> Outcome(getRiskScore(sender))
          [] op = "getCautionWindow" -> Outcome(getCautionWindow(sender))
          [] op = "getLatestMetrics" -> Outcome(getLatestMetrics(sender))
          [] op = "getMetricsAtIndex" -> Outcome(getMetricsAtIndex(sender, index))
          [] op = "getHistoryCount" -> Returned
          [] op = "getSummary" -> Returned
          [] op = "getLastUpdateTimestamp" -> Returned

Next ==
    \/ \E u \in Users, in \in SampleInputs :
          Encrypt(u, in) /\ UNCHANGED lastCall
    \/ \E u \in Users, k \in 1..MaxInputs, dt \in 0..1 :
          submitMetrics(u, k, dt) /\ UNCHANGED lastCall
    \/ \E u \in Users, index \in 0..MaxSubmissions :
          reauthorizeRecord(u, index) /\ UNCHANGED lastCall
    \/ \E u \in Users : reauthorizeAllRecords(u) /\ UNCHANGED lastCall

Spec == Init /\ [][Next]_vars

(***************************************************************************)
(* The contract with the outcome of every transaction recorded: whether    *)
(* the call returned or reverted, and with which reason.                   *)
(***************************************************************************)
submitMetricsOutcome(sender, k) ==
    [op |-> "submitMetrics", sender |-> sender, arg |-> k,
     ok |-> ProofAccepted(sender, k),
     error |-> IF ProofAccepted(sender, k) THEN "" ELSE "FHE.fromExternal reverted"]

reauthorizeRecordOutcome(sender, index) ==
    [op |-> "reauthorizeRecord", sender |-> sender, arg |-> index,
     ok |-> index < Len(userHistory[ReauthorizeTarget(sender)]),
     error |-> IF index < Len(userHistory[ReauthorizeTarget(sender)])
               THEN "" ELSE "Index out of bounds"]

reauthorizeAllRecordsOutcome(sender) ==
    [op |-> "reauthorizeAllRecords", sender |-> sender, arg |-> 0,
     ok |-> TRUE, error |-> ""]

CallsNext ==
    \/ \E u \in Users, in \in SampleInputs :
          ~HasEncrypted(u) /\ Encrypt(u, in) /\ lastCall' = NoCall
    \/ \E u \in Users, k \in 1..MaxInputs :
          submitMetrics(u, k, 0) /\ lastCall' = submitMetricsOutcome(u, k)
    \/ \E u \in Users, index \in 0..MaxSubmissions :
          reauthorizeRecord(u, index) /\ lastCall' = reauthorizeRecordOutcome(u, index)
    \/ \E u \in Users :
          reauthorizeAllRecords(u) /\ lastCall' = reauthorizeAllRecordsOutcome(u)

SpecCalls == Init /\ [][CallsNext]_vars

(***************************************************************************)
(* The classifier on its own: _calculateRiskScore applied to every triple  *)
(* of the input domain, and to 16-bit values outside it.                   *)
(***************************************************************************)
\* 16-bit inputs beyond the sliders' range, around the values where a
\* weighted product or a sum leaves 16 bits.
WideInputs == {101, 4369, 4370, 5461, 5462, 6553, 6554, 32768, 65535}
ClassInputs == (0..MaxMetric) \cup WideInputs
InRange(in) == \A i \in 1..3 : in[i] \in 0..MaxMetric

ClassInit ==
    /\ LedgerInit
    /\ SessionInit
    /\ CallInit
    /\ cIn \in ClassInputs \X ClassInputs \X ClassInputs
    /\ cOut = [trace |-> NoTrace, ret |-> [riskScore |-> 0, cautionWindow |-> 0]]
    /\ cPc = "encrypted"

Classify ==
    /\ cPc = "encrypted"
    /\ cOut' = [trace |-> RiskTrace(cIn[1], cIn[2], cIn[3]),
                ret |-> _calculateRiskScore(cIn[1], cIn[2], cIn[3])]
    /\ cPc' = "done"
    /\ UNCHANGED <<userHistory, latestMetrics, submissionCount, acl, cipher,
                   encrypted, now, events, commitLog, cIn, discVars, lastCall>>

SpecClassify == ClassInit /\ [][Classify]_vars

(***************************************************************************)
(* The disclosure protocol: userDecryptBatch and the decryption oracle.    *)
(***************************************************************************)
\* The batches the client asks for: none, the five handles of a record
\* (decryptRecord), the score of one record with the tier of another (or of
\* the same) record, and a batch that names a handle twice.
AllRecords == UNION {{userHistory[u][i] : i \in 1..Len(userHistory[u])} : u \in Users}
RecordBatch(r) ==
    <<r.emotionalFluctuation, r.socialFatigue, r.sleepDebt, r.riskScore,
      r.cautionWindow>>
Batches ==
    {<<>>}
    \cup {RecordBatch(r) : r \in AllRecords}
    \cup {<<a.riskScore, b.cautionWindow>> : a \in AllRecords, b \in AllRecords}
    \cup {<<a.cautionWindow, a.riskScore, a.cautionWindow>> : a \in AllRecords}

\* A session that has ended: the locals of the call are gone.
Ended(pc, stages, user, handles, result, error) ==
    [IdleSession EXCEPT !.pc = pc, !.stages = stages, !.user = user,
                        !.handles = handles, !.result = result, !.error = error,
                        !.sigRequests = session.sigRequests,
                        !.oracleCalls = session.oracleCalls]

\* fhevmInstance.createEIP712(publicKey, contractAddresses, start, days)
createEIP712(publicKey, contractAddresses, startTimestamp, durationDays) ==
    [publicKey |-> publicKey, contractAddresses |-> contractAddresses,
     startTimestamp |-> startTimestamp, durationDays |-> durationDays]

\* Mutant: the keypair of the first request is kept for the later ones.
ReuseKeypair(generated) == 1

\* fhevmInstance.generateKeypair(): the call after `generated` earlier calls
\* returns a keypair none of them returned.
GenerateKeypair(generated) == generated + 1

\* Mutant: one signature requested for each handle of the batch.
SignaturePerHandle(handles) == Len(handles)

\* The calls of signer.signTypedData userDecryptBatch makes for a batch.
SignatureRequests(handles) == 1

\* Mutant: the format of the contract address is not checked.
ChecksWithoutFormat(instanceReady, account, handles, contractAddress, methodsReady) ==
    IF ~instanceReady
    THEN [pc |-> "Failed", error |-> "FHEVM instance not initialized"]
    ELSE IF account = NoAccount
    THEN [pc |-> "Failed", error |-> "No account connected"]
    ELSE IF Len(handles) = 0
    THEN [pc |-> "Resolved", error |-> ""]
    ELSE IF ~contractAddress.given
    THEN [pc |-> "Failed", error |-> "Invalid contractAddress"]
    ELSE IF ~methodsReady
    THEN [pc |-> "Failed", error |-> "generateKeypair or createEIP712 not available"]
    ELSE [pc |-> "AwaitSignature", error |-> ""]

\* Mutant: an empty batch is not returned at once.
ChecksWithoutEmpty(instanceReady, account, handles, contractAddress, methodsReady) ==
    IF ~instanceReady
    THEN [pc |-> "Failed", error |-> "FHEVM instance not initialized"]
    ELSE IF account = NoAccount
    THEN [pc |-> "Failed", error |-> "No account connected"]
    ELSE IF ~contractAddress.given
    THEN [pc |-> "Failed", error |-> "Invalid contractAddress"]
    ELSE IF ~contractAddress.prefix0x \/ contractAddress.length # AddressLength
    THEN [pc |-> "Failed", error |-> "Invalid contractAddress format"]
    ELSE IF ~methodsReady
    THEN [pc |-> "Failed", error |-> "generateKeypair or createEIP712 not available"]
    ELSE [pc |-> "AwaitSignature", error |-> ""]

\* The checks userDecryptBatch makes before it generates a keypair, in the
\* order of the code: how the call ends there, or that it goes on.
userDecryptBatchChecks(instanceReady, account, handles, contractAddress, methodsReady) ==
    IF ~instanceReady
    THEN [pc |-> "Failed", error |-> "FHEVM instance not initialized"]
    ELSE IF account = NoAccount
    THEN [pc |-> "Failed", error |-> "No account connected"]
    ELSE IF Len(handles) = 0
    THEN [pc |-> "Resolved", error |-> ""]
    ELSE IF ~contractAddress.given
    THEN [pc |-> "Failed", error |-> "Invalid contractAddress"]
    ELSE IF ~contractAddress.prefix0x \/ contractAddress.length # AddressLength
    THEN [pc |-> "Failed", error |-> "Invalid contractAddress format"]
    ELSE IF ~methodsReady
    THEN [pc |-> "Failed", error |-> "generateKeypair or createEIP712 not available"]
    ELSE [pc |-> "AwaitSignature", error |-> ""]

\* userDecryptBatch, from the call to the request for the signature.
userDecryptBatch(instanceReady, account, handles, contractAddress, methodsReady) ==
    /\ session.pc = "Idle"
    /\ LET check == userDecryptBatchChecks(instanceReady, account, handles,
                                           contractAddress, methodsReady)
       IN
       IF check.pc # "AwaitSignature"
       THEN /\ session' = Ended(check.pc, <<"Init">>, NoAccount, <<>>, <<>>,
                                check.error)
            /\ UNCHANGED keysGenerated
       ELSE /\ keysGenerated' = keysGenerated + 1
            /\ session' =
                 [IdleSession EXCEPT
                    !.pc = "AwaitSignature",
                    !.stages = <<"Init", "KeypairGenerated", "StatementBuilt">>,
                    !.user = account,
                    !.handles = handles,
                    !.keypair = GenerateKeypair(keysGenerated),
                    !.statement = createEIP712(GenerateKeypair(keysGenerated),
                                               <<contractAddress.account>>,
                                               now, DurationDays),
                    !.sigRequests = SignatureRequests(handles)]
    /\ UNCHANGED <<ledgerVars, classVars, browserVars, lastCall>>

\* Mutant: the oracle is called although the signer was not waited for.
SubmittedUnsigned == <<"Submitted">>

\* The stages passed when signer.signTypedData resolves: the signature is
\* there, and the call of fhevmInstance.userDecrypt follows.
StagesOfSubmission == <<"Signed", "Submitted">>

\* The arguments of the call of fhevmInstance.userDecrypt: the pairs built
\* from the handles and the contract address, and the signature data.
UserDecryptArguments(signature) ==
    [pairs |-> [i \in 1..Len(session.handles) |->
                  [handle |-> session.handles[i],
                   contractAddress |-> session.statement.contractAddresses[1]]],
     publicKey |-> session.keypair,
     signature |-> signature,
     contractAddresses |-> session.statement.contractAddresses,
     userAddress |-> session.user,
     startTimestamp |-> session.statement.startTimestamp,
     durationDays |-> session.statement.durationDays]

\* signer.signTypedData resolves: the signature data and the handle/contract
\* pairs are built and fhevmInstance.userDecrypt is called.
SignatureGranted ==
    /\ session.pc = "AwaitSignature"
    /\ LET signature == [signer |-> session.user, message |-> session.statement]
       IN  session' = [session EXCEPT
                         !.pc = "AwaitOracle",
                         !.stages = @ \o StagesOfSubmission,
                         !.signature = signature,
                         !.request = UserDecryptArguments(signature),
                         !.oracleCalls = @ + 1]
    /\ UNCHANGED <<ledgerVars, classVars, keysGenerated, browserVars, lastCall>>

\* signer.signTypedData rejects: the call throws.
SignatureRejected ==
    /\ session.pc = "AwaitSignature"
    /\ session' = Ended("Failed", session.stages, session.user, session.handles,
                        <<>>, "signature rejected")
    /\ UNCHANGED <<ledgerVars, classVars, keysGenerated, browserVars, lastCall>>

\* The oracle discloses a handle of the batch only if the ACL holds a grant
\* on it for the requesting user and for the contract named with it.
OracleAuthorized(h, user, contract) ==
    isAuthorized(h, user) /\ isAuthorized(h, contract)

\* What the oracle may answer: an error, a bare bigint, or a record of
\* plaintexts for any of the handles of the batch it is authorized to
\* disclose.
OracleResponses ==
    LET asked == {session.handles[i] : i \in 1..Len(session.handles)}
        allowed == {h \in asked :
                      /\ session.signature.signer = session.user
                      /\ \A i \in 1..Len(session.statement.contractAddresses) :
                            OracleAuthorized(h, session.user,
                                             session.statement.contractAddresses[i])}
    IN  {[ok |-> FALSE, form |-> "none", values |-> <<>>],
         [ok |-> TRUE, form |-> "bigint", values |-> <<>>]}
        \cup {[ok |-> TRUE, form |-> "record", values |-> [h \in S |-> Plain(h)]] :
                 S \in SUBSET allowed}

\* Mutant: a handle missing from the response is skipped.
RECURSIVE ExtractSkipMissing(_, _, _)
ExtractSkipMissing(handles, values, decryptedValues) ==
    IF handles = <<>>
    THEN [ok |-> TRUE, values |-> decryptedValues]
    ELSE IF Head(handles) \notin DOMAIN values
         THEN ExtractSkipMissing(Tail(handles), values, decryptedValues)
         ELSE ExtractSkipMissing(Tail(handles), values,
                                 Append(decryptedValues, values[Head(handles)]))

\* Mutant: the loop stops at a missing handle and returns what it has.
RECURSIVE ExtractUntilMissing(_, _, _)
ExtractUntilMissing(handles, values, decryptedValues) ==
    IF handles = <<>> \/ Head(handles) \notin DOMAIN values
    THEN [ok |-> TRUE, values |-> decryptedValues]
    ELSE ExtractUntilMissing(Tail(handles), values,
                             Append(decryptedValues, values[Head(handles)]))

\* Mutant: each value is put in front of the ones extracted before it.
RECURSIVE ExtractPrepend(_, _, _)
ExtractPrepend(handles, values, decryptedValues) ==
    IF handles = <<>>
    THEN [ok |-> TRUE, values |-> decryptedValues]
    ELSE IF Head(handles) \notin DOMAIN values
         THEN [ok |-> FALSE, values |-> <<>>]
         ELSE ExtractPrepend(Tail(handles), values,
                             <<values[Head(handles)]>> \o decryptedValues)

\* The loop that extracts the decrypted values in the order of the request.
RECURSIVE ExtractValues(_, _, _)
ExtractValues(handles, values, decryptedValues) ==
    IF handles = <<>>
    THEN [ok |-> TRUE, values |-> decryptedValues]
    ELSE IF Head(handles) \notin DOMAIN values
         THEN [ok |-> FALSE, values |-> <<>>]
         ELSE ExtractValues(Tail(handles), values,
                            Append(decryptedValues, values[Head(handles)]))

\* fhevmInstance.userDecrypt settles, and userDecryptBatch runs to its end.
OracleResponds(response) ==
    /\ session.pc = "AwaitOracle"
    /\ response \in OracleResponses
    /\ LET extracted == ExtractValues(session.handles, response.values, <<>>)
           ended == IF ~response.ok
                    THEN Ended("Failed", session.stages, session.user,
                               session.handles, <<>>, "oracle error")
                    ELSE IF response.form = "bigint"
                    THEN Ended("Failed", session.stages, session.user,
                               session.handles, <<>>,
                               "Unexpected result type: bigint")
                    ELSE IF ~extracted.ok
                    THEN Ended("Failed", session.stages, session.user,
                               session.handles, <<>>, "Failed to decrypt handle")
                    ELSE Ended("Resolved", session.stages, session.user,
                               session.handles, extracted.values, "")
       IN  session' = [ended EXCEPT
                         !.grantedAtCheck =
                             \A i \in 1..Len(session.handles) :
                                 isAuthorized(session.handles[i], session.user),
                         !.incomplete =
                             /\ response.ok
                             /\ \E i \in 1..Len(session.handles) :
                                    session.handles[i] \notin DOMAIN response.values]
    /\ UNCHANGED <<ledgerVars, classVars, keysGenerated, browserVars, lastCall>>

\* Mutant: a failed call asks the signer again by itself.
SessionRetry ==
    /\ session.pc \in {"Resolved", "Failed"}
    /\ session' = IF session.pc = "Failed" /\ session.sigRequests = 1
                  THEN [session EXCEPT !.pc = "AwaitSignature",
                                       !.sigRequests = @ + 1, !.error = ""]
                  ELSE IdleSession
    /\ UNCHANGED <<ledgerVars, classVars, keysGenerated, browserVars, lastCall>>

\* The caller has the result or the error; a later request is a new call.
SessionEnd ==
    /\ session.pc \in {"Resolved", "Failed"}
    /\ session' = IdleSession
    /\ UNCHANGED <<ledgerVars, classVars, keysGenerated, browserVars, lastCall>>

DisclosureNext ==
    \/ \E u \in Users, in \in SampleInputs :
          ~HasEncrypted(u) /\ Encrypt(u, in) /\ UNCHANGED lastCall
    \/ \E u \in Users, k \in 1..MaxInputs :
          Len(userHistory[u]) = 0 /\ submitMetrics(u, k, 0) /\ UNCHANGED lastCall
    \/ \E u \in Users, index \in 0..MaxSubmissions :
          reauthorizeRecord(u, index) /\ UNCHANGED lastCall
    \/ \E u \in Users : reauthorizeAllRecords(u) /\ UNCHANGED lastCall
    \/ \E account \in Users, handles \in Batches :
          /\ keysGenerated < MaxSessions
          /\ userDecryptBatch(TRUE, account, handles, ContractThis, TRUE)
    \/ \E instanceReady \in BOOLEAN, account \in {NoAccount, 1},
          handles \in {b \in Batches : Len(b) \in {0, 5}},
          contractAddress \in ContractArgs, methodsReady \in BOOLEAN :
          /\ keysGenerated < MaxSessions
          /\ userDecryptBatch(instanceReady, account, handles, contractAddress,
                              methodsReady)
    \/ SignatureGranted
    \/ SignatureRejected
    \/ \E response \in OracleResponses : OracleResponds(response)
    \/ SessionEnd

SpecDisclosure == Init /\ [][DisclosureNext]_vars

(***************************************************************************)
(* Requests one after another: userDecrypt, userDecryptBatch, and the      *)
(* signature cache FhevmDecryptionSignature keeps in localStorage.         *)
(***************************************************************************)
\* userDecrypt, from the call to the request for the signature.  The
\* availability of createEIP712 is checked after the keypair is generated.
userDecrypt(instanceReady, account, handle, contractAddress, keypairReady, eip712Ready) ==
    /\ session.pc = "Idle"
    /\ IF ~instanceReady
       THEN /\ session' = Ended("Failed", <<"Init">>, NoAccount, <<>>, <<>>,
                                "FHEVM instance not initialized")
            /\ UNCHANGED keysGenerated
       ELSE IF account = NoAccount
       THEN /\ session' = Ended("Failed", <<"Init">>, NoAccount, <<>>, <<>>,
                                "No account connected")
            /\ UNCHANGED keysGenerated
       ELSE IF ~keypairReady
       THEN /\ session' = Ended("Failed", <<"Init">>, NoAccount, <<>>, <<>>,
                                "generateKeypair not available")
            /\ UNCHANGED keysGenerated
       ELSE IF ~eip712Ready
       THEN /\ session' = Ended("Failed", <<"Init", "KeypairGenerated">>, account,
                                <<handle>>, <<>>, "createEIP712 not available")
            /\ keysGenerated' = keysGenerated + 1
       ELSE /\ keysGenerated' = keysGenerated + 1
            /\ session' =
                 [IdleSession EXCEPT
                    !.pc = "AwaitSignature",
                    !.stages = <<"Init", "KeypairGenerated", "StatementBuilt">>,
                    !.user = account,
                    !.handles = <<handle>>,
                    !.keypair = GenerateKeypair(keysGenerated),
                    !.statement = createEIP712(GenerateKeypair(keysGenerated),
                                               <<contractAddress.account>>,
                                               now, DurationDays),
                    !.sigRequests = 1]
    /\ UNCHANGED <<ledgerVars, classVars, browserVars, lastCall>>

\* Mutant: giving up a call takes the user's grants on its handles back.
AbandonedRevokesGrants ==
    /\ session.pc \in {"AwaitSignature", "AwaitOracle"}
    /\ session' = IdleSession
    /\ acl' = acl \ {<<session.handles[i], session.user>> :
                       i \in 1..Len(session.handles)}
    /\ UNCHANGED <<userHistory, latestMetrics, submissionCount, cipher,
                   encrypted, now, events, commitLog, classVars, keysGenerated,
                   browserVars, lastCall>>

\* The page is closed or reloaded while the call awaits the signer or the
\* oracle: the locals of the call are gone and nobody gets a result.
SessionAbandoned ==
    /\ session.pc \in {"AwaitSignature", "AwaitOracle"}
    /\ session' = IdleSession
    /\ UNCHANGED <<ledgerVars, classVars, keysGenerated, browserVars, lastCall>>

\* The strings used as cache keys: an account, or `${account}:${contract}`,
\* in the checksummed (mixed case) or the lower case spelling.
KeyStrings ==
    [account : Users \cup {NoAccount}, contract : {NoContract, This},
     mixedCase : BOOLEAN]
toLowerCase(str) == [str EXCEPT !.mixedCase = FALSE]
\* `${SIGNATURE_CACHE_PREFIX}.${account.toLowerCase()}`
CacheKey(str) == toLowerCase(str)
\* !account: the empty string.
IsEmptyString(str) == str.account = NoAccount
StoredSignatures == {"0xsignature"}

\* FhevmDecryptionSignature.get
FhevmDecryptionSignature_get(str) ==
    IF IsEmptyString(str) THEN "null"
    ELSE IF \E item \in signatureCache : item.key = CacheKey(str)
    THEN (CHOOSE item \in signatureCache : item.key = CacheKey(str)).value
    ELSE "null"

\* FhevmDecryptionSignature.set
FhevmDecryptionSignature_set(str, signature) ==
    /\ signatureCache' =
          IF IsEmptyString(str) \/ signature = ""
          THEN signatureCache
          ELSE {item \in signatureCache : item.key # CacheKey(str)}
               \cup {[key |-> CacheKey(str), value |-> signature]}
    /\ UNCHANGED <<ledgerVars, classVars, session, keysGenerated, wallet,
                   pageVars, lastCall>>

\* FhevmDecryptionSignature.clear, on the cache alone.
ClearItem(cache, str) ==
    IF IsEmptyString(str) THEN cache
    ELSE {item \in cache : item.key # CacheKey(str)}

\* clearSignature(accountAddress, contractAddr?) of the provider context.
clearSignature(accountAddress, contractAddr) ==
    /\ signatureCache' =
          IF contractAddr # NoContract
          THEN ClearItem(signatureCache,
                         [accountAddress EXCEPT !.contract = contractAddr])
          ELSE ClearItem(signatureCache, accountAddress)
    /\ UNCHANGED <<ledgerVars, classVars, session, keysGenerated, wallet,
                   pageVars, lastCall>>

\* FhevmDecryptionSignature.clearAll: every item under the prefix.
FhevmDecryptionSignature_clearAll ==
    /\ signatureCache' = {}
    /\ UNCHANGED <<ledgerVars, classVars, session, keysGenerated, wallet,
                   pageVars, lastCall>>

\* The handles asked for one at a time: the score and the tier of a record.
SingleHandles == UNION {{r.riskScore, r.cautionWindow} : r \in AllRecords}

RequestsNext ==
    \/ \E in \in SampleInputs :
          ~HasEncrypted(1) /\ Encrypt(1, in) /\ UNCHANGED lastCall
    \/ Len(userHistory[1]) = 0 /\ submitMetrics(1, 1, 0) /\ UNCHANGED lastCall
    \/ \E instanceReady \in BOOLEAN, account \in {NoAccount, 1},
          handle \in SingleHandles, keypairReady \in BOOLEAN,
          eip712Ready \in BOOLEAN :
          /\ keysGenerated < MaxRequests
          /\ userDecrypt(instanceReady, account, handle, ContractThis,
                         keypairReady, eip712Ready)
    \/ \E instanceReady \in BOOLEAN, account \in {NoAccount, 1},
          handles \in Batches, contractAddress \in ContractArgs,
          methodsReady \in BOOLEAN :
          /\ keysGenerated < MaxRequests
          /\ userDecryptBatch(instanceReady, account, handles, contractAddress,
                              methodsReady)
    \/ SignatureGranted
    \/ SignatureRejected
    \/ \E response \in OracleResponses : OracleResponds(response)
    \/ SessionEnd
    \/ SessionAbandoned
    \/ \E str \in KeyStrings, signature \in StoredSignatures \cup {""} :
          FhevmDecryptionSignature_set(str, signature)
    \/ \E accountAddress \in {str \in KeyStrings : str.contract = NoContract},
          contractAddr \in {NoContract, This} :
          clearSignature(accountAddress, contractAddr)
    \/ FhevmDecryptionSignature_clearAll

SpecRequests == Init /\ [][RequestsNext]_vars

(***************************************************************************)
(* The wallet hook useMetaMaskProvider: discovery, connect, disconnect,    *)
(* the wallet's events, and the silent reconnect effect.                   *)
(***************************************************************************)
WalletFrame == UNCHANGED <<ledgerVars, classVars, session, keysGenerated,
                           signatureCache, pageVars, lastCall>>

\* Whether a wallet is in the list of discovered providers.
Discovered(rdns) ==
    \E i \in 1..Len(wallet.providers) : wallet.providers[i] = rdns

\* The page is loaded again: the runtime state starts from its defaults,
\* the four persisted values are read back from localStorage.
PageLoad ==
    /\ wallet' = [wallet EXCEPT !.walletState = WalletStateInit,
                                !.isConnecting = FALSE, !.error = "null",
                                !.providers = <<>>, !.listeners = {},
                                !.effectPending = TRUE,
                                !.reconnect = IdleCall, !.connecting = IdleCall,
                                !.requests = {}]
    /\ WalletFrame

\* useEip6963.onAnnouncement: a wallet announces itself; the list of
\* providers is a new array at every announcement.
onAnnouncement(rdns) ==
    /\ wallet' = [wallet EXCEPT
                    !.providers = IF Discovered(rdns) THEN @ ELSE Append(@, rdns),
                    !.effectPending = TRUE]
    /\ WalletFrame

\* The request the silent path reads the accounts with.
SilentAccountsMethod == "eth_accounts"

\* The conditions under which the effect calls silentReconnect.
ReconnectCondition(w) ==
    /\ w.connected
    /\ w.lastConnectorId # NoConnector
    /\ w.providers # <<>>
    /\ \E i \in 1..Len(w.providers) : w.providers[i] = w.lastConnectorId

\* The silent reconnect effect runs (after the first render and after every
\* render that changed one of its dependencies), up to the eth_accounts
\* request.  A run that finds an earlier silentReconnect in flight is taken
\* after that one has ended.
ReconnectEffect ==
    /\ wallet.effectPending
    /\ wallet.reconnect.pc = "idle"
    /\ wallet' =
          IF ReconnectCondition(wallet)
          THEN [wallet EXCEPT
                  !.effectPending = FALSE,
                  !.reconnect = [pc |-> "AwaitAccounts",
                                 provider |-> wallet.lastConnectorId,
                                 lastAccounts |-> wallet.lastAccounts,
                                 accounts |-> <<>>, outcome |-> "none"],
                  !.requests = @ \cup {<<"silentReconnect", SilentAccountsMethod>>}]
          ELSE [wallet EXCEPT !.effectPending = FALSE]
    /\ WalletFrame

\* setConnected(false) in silentReconnect: the call is over, and the effect
\* runs again if the flag changed.
SilentCleared(w) ==
    [w EXCEPT !.connected = FALSE,
              !.effectPending = @ \/ w.connected,
              !.reconnect = [IdleCall EXCEPT !.outcome = "cleared"]]

\* silentReconnect: the eth_accounts request settles.
silentReconnectAccounts(ok, accounts) ==
    /\ wallet.reconnect.pc = "AwaitAccounts"
    /\ wallet' =
          IF ~ok
          THEN SilentCleared(wallet)
          ELSE IF Len(accounts) = 0
                  \/ First(accounts) # First(wallet.reconnect.lastAccounts)
          THEN SilentCleared(wallet)
          ELSE [wallet EXCEPT
                  !.reconnect.pc = "AwaitChainId",
                  !.reconnect.accounts = accounts,
                  !.requests = @ \cup {<<"silentReconnect", "eth_chainId">>}]
    /\ WalletFrame

\* silentReconnect: the eth_chainId request settles.
silentReconnectChainId(ok, chainId) ==
    /\ wallet.reconnect.pc = "AwaitChainId"
    /\ wallet' =
          IF ~ok
          THEN SilentCleared(wallet)
          ELSE [wallet EXCEPT
                  !.walletState =
                      [isConnected |-> TRUE,
                       account |-> First(wallet.reconnect.accounts),
                       chainId |-> chainId,
                       provider |-> wallet.reconnect.provider],
                  !.listeners = @ \cup {wallet.reconnect.provider},
                  !.reconnect = [IdleCall EXCEPT !.outcome = "connected"]]
    /\ WalletFrame

\* The catch block of connect: the error is kept, the flag is cleared.
ConnectFailed(w, message) ==
    [w EXCEPT !.error = message, !.connected = FALSE,
              !.effectPending = @ \/ w.connected,
              !.isConnecting = FALSE, !.connecting = IdleCall]

\* connect(providerDetail?), up to the eth_requestAccounts request.
connect(providerDetail) ==
    /\ wallet.connecting.pc = "idle"
    /\ LET targetProvider ==
               IF providerDetail # NoConnector THEN providerDetail
               ELSE IF wallet.providers # <<>> THEN wallet.providers[1]
               ELSE NoConnector
           w == [wallet EXCEPT !.isConnecting = TRUE, !.error = "null"]
       IN  wallet' =
             IF targetProvider = NoConnector
             THEN ConnectFailed(w, "No wallet provider found")
             ELSE [w EXCEPT
                     !.connecting = [IdleCall EXCEPT !.pc = "AwaitAccounts",
                                                     !.provider = targetProvider],
                     !.requests = @ \cup {<<"connect", "eth_requestAccounts">>}]
    /\ WalletFrame

\* connect: the eth_requestAccounts request settles.
connectAccounts(ok, accounts) ==
    /\ wallet.connecting.pc = "AwaitAccounts"
    /\ wallet' =
          IF ~ok
          THEN ConnectFailed(wallet, "Failed to connect wallet")
          ELSE IF Len(accounts) = 0
          THEN ConnectFailed(wallet, "No accounts returned")
          ELSE [wallet EXCEPT
                  !.connecting.pc = "AwaitChainId",
                  !.connecting.accounts = accounts,
                  !.requests = @ \cup {<<"connect", "eth_chainId">>}]
    /\ WalletFrame

\* connect: the eth_chainId request settles; on success the connection is
\* persisted and the runtime state is set.
connectChainId(ok, chainId) ==
    /\ wallet.connecting.pc = "AwaitChainId"
    /\ wallet' =
          IF ~ok
          THEN ConnectFailed(wallet, "Failed to connect wallet")
          ELSE [wallet EXCEPT
                  !.lastConnectorId = wallet.connecting.provider,
                  !.lastAccounts = wallet.connecting.accounts,
                  !.lastChainId = chainId,
                  !.connected = TRUE,
                  !.effectPending = TRUE,
                  !.walletState =
                      [isConnected |-> TRUE,
                       account |-> First(wallet.connecting.accounts),
                       chainId |-> chainId,
                       provider |-> wallet.connecting.provider],
                  !.listeners = @ \cup {wallet.connecting.provider},
                  !.isConnecting = FALSE,
                  !.connecting = IdleCall]
    /\ WalletFrame

\* What disconnect() does to the hook's state.
Disconnected(w) ==
    [w EXCEPT !.walletState = WalletStateInit,
              !.lastConnectorId = NoConnector,
              !.lastAccounts = <<>>,
              !.lastChainId = NoChain,
              !.connected = FALSE,
              !.effectPending = TRUE]

disconnect ==
    /\ wallet' = Disconnected(wallet)
    /\ WalletFrame

\* The wallet's accountsChanged event, on a provider with listeners.
handleAccountsChanged(provider, accounts) ==
    /\ provider \in wallet.listeners
    /\ wallet' =
          IF Len(accounts) = 0
          THEN Disconnected(wallet)
          ELSE [wallet EXCEPT !.walletState.account = First(accounts),
                              !.lastAccounts = accounts,
                              !.effectPending = TRUE]
    /\ WalletFrame

\* The wallet's chainChanged event.
handleChainChanged(provider, chainId) ==
    /\ provider \in wallet.listeners
    /\ wallet' = [wallet EXCEPT !.walletState.chainId = chainId,
                                !.lastChainId = chainId]
    /\ WalletFrame

\* The wallet's disconnect event.
handleDisconnect(provider) ==
    /\ provider \in wallet.listeners
    /\ wallet' = Disconnected(wallet)
    /\ WalletFrame

WalletNext ==
    \/ PageLoad
    \/ \E rdns \in Connectors : onAnnouncement(rdns)
    \/ ReconnectEffect
    \/ \E ok \in BOOLEAN, accounts \in AccountLists :
          silentReconnectAccounts(ok, accounts)
    \/ \E ok \in BOOLEAN, chainId \in Chains : silentReconnectChainId(ok, chainId)
    \/ \E providerDetail \in Connectors \cup {NoConnector} : connect(providerDetail)
    \/ \E ok \in BOOLEAN, accounts \in AccountLists : connectAccounts(ok, accounts)
    \/ \E ok \in BOOLEAN, chainId \in Chains : connectChainId(ok, chainId)
    \/ disconnect
    \/ \E provider \in Connectors, accounts \in AccountLists :
          handleAccountsChanged(provider, accounts)
    \/ \E provider \in Connectors, chainId \in Chains :
          handleChainChanged(provider, chainId)
    \/ \E provider \in Connectors : handleDisconnect(provider)

SpecWallet == Init /\ [][WalletNext]_vars

(***************************************************************************)
(* FhevmProvider: the effect that initializes the FHEVM instance.  Each    *)
(* run of init() is an entry of fhevm.runs: the props its closure holds,   *)
(* the await it is suspended at, and its `cancelled` flag.  The instance a *)
(* run creates is named by the run's index.                                *)
(***************************************************************************)
\* Bound: how often the props the effect depends on change.
MaxInits == 2

FhevmProps ==
    [provider : {NoConnector} \cup Connectors, chainId : {NoChain} \cup Chains,
     contractAddress : {NoContract, This}]

\* The cleanup of the effect that ran before: cancelled = true in its closure.
InitCleanup(runs) == [i \in DOMAIN runs |-> [runs[i] EXCEPT !.cancelled = TRUE]]

\* The effect body with the props of this render, up to the first await of
\* init().
InitEffect(f, props) ==
    IF props.provider = NoConnector \/ props.chainId = NoChain
    THEN [f EXCEPT !.props = props, !.runs = InitCleanup(f.runs),
                   !.fhevmInstance = NoInstance, !.isInitialized = FALSE,
                   !.error = "null"]
    ELSE [f EXCEPT !.props = props,
                   !.runs = Append(InitCleanup(f.runs),
                                   [props |-> props, pc |-> "createFhevmInstance",
                                    cancelled |-> FALSE]),
                   !.isInitializing = TRUE, !.error = "null"]

\* provider, chainId or contractAddress changes: React runs the cleanup of
\* the last effect and then the effect.
PropsChange(props) ==
    /\ props # fhevm.props
    /\ Len(fhevm.runs) < MaxInits
    /\ fhevm' = InitEffect(fhevm, props)
    /\ PageFrame("fhevm")

\* The finally block of init().
InitFinally(f, run) == IF run.cancelled THEN f ELSE [f EXCEPT !.isInitializing = FALSE]

\* The catch block of init().
InitCatch(f, run) ==
    IF run.cancelled THEN f
    ELSE [f EXCEPT !.error = "Failed to initialize FHEVM", !.isInitialized = FALSE]

\* setFhevmInstance(instance); setIsInitialized(true)
InitInstall(f, i) == [f EXCEPT !.fhevmInstance = i, !.isInitialized = TRUE]

\* await createFhevmInstance(...) settles in run i.
createFhevmInstanceSettles(i, ok) ==
    /\ i \in DOMAIN fhevm.runs
    /\ fhevm.runs[i].pc = "createFhevmInstance"
    /\ LET run == fhevm.runs[i]
           at(pc) == [fhevm EXCEPT !.runs[i].pc = pc]
       IN  fhevm' =
             IF ~ok THEN InitFinally(InitCatch(at("done"), run), run)
             ELSE IF run.cancelled THEN at("done")
             ELSE IF run.props.chainId # 31337 THEN at("getFhevmPublicKey")
             ELSE InitFinally(InitInstall(at("done"), i), run)
    /\ PageFrame("fhevm")

\* await getFhevmPublicKey(instance, chainId) settles in run i.
getFhevmPublicKeySettles(i, ok) ==
    /\ i \in DOMAIN fhevm.runs
    /\ fhevm.runs[i].pc = "getFhevmPublicKey"
    /\ LET run == fhevm.runs[i]
           done == [fhevm EXCEPT !.runs[i].pc = "done"]
       IN  fhevm' =
             IF ~ok THEN InitFinally(InitCatch(done, run), run)
             ELSE InitFinally(InitInstall(done, i), run)
    /\ PageFrame("fhevm")

FhevmNext ==
    \/ \E props \in FhevmProps : PropsChange(props)
    \/ \E i \in 1..MaxInits, ok \in BOOLEAN : createFhevmInstanceSettles(i, ok)
    \/ \E i \in 1..MaxInits, ok \in BOOLEAN : getFhevmPublicKeySettles(i, ok)

SpecFhevm == Init /\ [][FhevmNext]_vars

(***************************************************************************)
(* useBambooHoldSpeech: txStatus and txError, written by submitMetrics and *)
(* reauthorizeAllRecords.  tx.pc[op] is the await the call of op is        *)
(* suspended at; tx.overlapped records that two calls have been between    *)
(* their setTxStatus("pending") and their end at the same time.           *)
(***************************************************************************)
\* Bound: the calls of the two functions made on one page.
MaxTransactions == 3

\* The awaits of each function that follow setTxStatus("pending"), in order.
TxAwaits(op) ==
    IF op = "submitMetrics"
    THEN <<"encrypt", "getSigner", "send", "wait">>
    ELSE <<"send", "wait">>

\* error.message || the fallback of the function
TxMessage(op) ==
    IF op = "submitMetrics" THEN "Transaction failed"
    ELSE "Failed to re-authorize records"

\* setTxStatus("pending"); setTxError(null); the call goes on to its first
\* await inside the try block.
TxPending(t, op) ==
    [t EXCEPT !.txStatus = "pending", !.txError = "null",
              !.pc[op] = TxAwaits(op)[1],
              !.overlapped = @ \/ \E other \in TxOps \ {op} :
                                     t.pc[other] \in {"encrypt", "getSigner",
                                                      "send", "wait"}
                                     /\ ~(other = "reauthorizeAllRecords"
                                          /\ t.pc[other] = "getSigner")]

\* A call of submitMetrics(metrics) or reauthorizeAllRecords(): the check of
\* the hook state throws or the call starts.  reauthorizeAllRecords awaits
\* getSigner before it touches txStatus.
TxCall(op, ready) ==
    /\ tx.pc[op] = "idle"
    /\ tx.calls < MaxTransactions
    /\ tx' = LET t == [tx EXCEPT !.calls = @ + 1, !.outcome[op] = "none"]
             IN  IF ~ready THEN [t EXCEPT !.outcome[op] = "rejected"]
                 ELSE IF op = "reauthorizeAllRecords"
                 THEN [t EXCEPT !.pc[op] = "getSigner"]
                 ELSE TxPending(t, op)
    /\ PageFrame("tx")

\* The await of ethersProvider.getSigner() in reauthorizeAllRecords settles:
\* a rejection leaves the function before the try block.
reauthorizeGetSigner(ok) ==
    /\ tx.pc["reauthorizeAllRecords"] = "getSigner"
    /\ tx' = IF ok THEN TxPending(tx, "reauthorizeAllRecords")
             ELSE [tx EXCEPT !.pc["reauthorizeAllRecords"] = "idle",
                             !.outcome["reauthorizeAllRecords"] = "rejected"]
    /\ PageFrame("tx")

\* An await inside the try block of op settles: the next await, or
\* setTxStatus("success") after the last, or the catch block.
TxSettles(op, ok) ==
    /\ \E i \in 1..Len(TxAwaits(op)) :
          /\ tx.pc[op] = TxAwaits(op)[i]
          /\ tx' = IF ~ok
                   THEN [tx EXCEPT !.txError = TxMessage(op), !.txStatus = "error",
                                   !.pc[op] = "idle", !.outcome[op] = "rejected"]
                   ELSE IF i < Len(TxAwaits(op))
                   THEN [tx EXCEPT !.pc[op] = TxAwaits(op)[i + 1]]
                   ELSE [tx EXCEPT !.txStatus = "success", !.pc[op] = "idle",
                                   !.outcome[op] = "resolved"]
    /\ PageFrame("tx")

TxNext ==
    \/ \E op \in TxOps, ready \in BOOLEAN : TxCall(op, ready)
    \/ \E ok \in BOOLEAN : reauthorizeGetSigner(ok)
    \/ \E op \in TxOps, ok \in BOOLEAN : TxSettles(op, ok)

SpecTx == Init /\ [][TxNext]_vars

(***************************************************************************)
(* loadRelayerSDK: the script element of the SDK, window.relayerSDK, and   *)
(* how each call of the loader has ended so far.                           *)
(***************************************************************************)
\* Bound: the calls of loadRelayerSDK on one page.
MaxLoads == 4

\* loadRelayerSDK() called on the server (no window) or in the browser.
loadRelayerSDK(inBrowser) ==
    /\ Len(sdk.calls) < MaxLoads
    /\ LET ended(env, outcome, error) ==
               [sdk EXCEPT !.calls = Append(@, [env |-> env, outcome |-> outcome,
                                                error |-> error])]
       IN  sdk' =
             IF ~inBrowser
             THEN ended("server", "rejected",
                        "Relayer SDK can only be loaded in browser environment")
             ELSE IF sdk.relayerSDK THEN ended("browser", "resolved", "")
             ELSE IF sdk.scripts > 0
             THEN ended("browser", "rejected",
                        "Relayer SDK script exists but window.relayerSDK is not available")
             ELSE [ended("browser", "pending", "") EXCEPT
                     !.scripts = @ + 1, !.script = "loading"]
    /\ PageFrame("sdk")

\* script.onload: the script has run, and has defined window.relayerSDK or
\* has not.
scriptOnload(defines) ==
    /\ sdk.script = "loading"
    /\ sdk' = [sdk EXCEPT
                 !.script = "loaded", !.relayerSDK = defines,
                 !.calls = [i \in DOMAIN @ |->
                              IF @[i].outcome # "pending" THEN @[i]
                              ELSE IF defines THEN [@[i] EXCEPT !.outcome = "resolved"]
                              ELSE [@[i] EXCEPT
                                      !.outcome = "rejected",
                                      !.error = "Relayer SDK loaded but window.relayerSDK is not available"]]]
    /\ PageFrame("sdk")

\* script.onerror
scriptOnerror ==
    /\ sdk.script = "loading"
    /\ sdk' = [sdk EXCEPT
                 !.script = "failed",
                 !.calls = [i \in DOMAIN @ |->
                              IF @[i].outcome # "pending" THEN @[i]
                              ELSE [@[i] EXCEPT !.outcome = "rejected",
                                                !.error = "Failed to load Relayer SDK"]]]
    /\ PageFrame("sdk")

SdkNext ==
    \/ \E inBrowser \in BOOLEAN : loadRelayerSDK(inBrowser)
    \/ \E defines \in BOOLEAN : scriptOnload(defines)
    \/ scriptOnerror

SpecSdk == Init /\ [][SdkNext]_vars

(***************************************************************************)
(* localStorage as the list of its keys, in the order localStorage.key(i)  *)
(* returns them: removing an item moves the later keys down by one.        *)
(* storage.op names the call made last, storage.before the keys before it. *)
(***************************************************************************)
\* Bound: the number of items in localStorage.
MaxKeys == 3

PUBLIC_KEY_CACHE_PREFIX == "fhevm.publicKey"
SIGNATURE_CACHE_PREFIX == "fhevm.decryptionSignature"

\* The keys the page stores: public keys by chain, signatures, other items.
StorageKeys ==
    [prefix : {PUBLIC_KEY_CACHE_PREFIX, SIGNATURE_CACHE_PREFIX, "theme"},
     suffix : Chains]

\* key.startsWith(prefix)
startsWith(key, prefix) == key.prefix = prefix

\* localStorage.removeItem(key)
removeItem(keys, key) == SelectSeq(keys, LAMBDA k : k # key)

\* localStorage.setItem(key, value)
setItem(key) ==
    /\ \/ \E i \in DOMAIN storage.keys : storage.keys[i] = key
       \/ Len(storage.keys) < MaxKeys
    /\ storage' = [keys |-> IF \E i \in DOMAIN storage.keys : storage.keys[i] = key
                            THEN storage.keys ELSE Append(storage.keys, key),
                   op |-> "setItem", before |-> storage.keys]
    /\ PageFrame("storage")

\* PublicKeyStorage.clear(chainId?): with a chain id the item of the chain
\* is removed; with chainId undefined (or 0) the loop runs from index 0, and
\* reads localStorage.length and localStorage.key(i) anew in every round.
PublicKeyStorage_clear(chainId) ==
    LET RECURSIVE Loop(_, _)
        Loop(keys, i) ==
            IF i >= Len(keys) THEN keys
            ELSE IF startsWith(keys[i + 1], PUBLIC_KEY_CACHE_PREFIX)
            THEN Loop(removeItem(keys, keys[i + 1]), i + 1)
            ELSE Loop(keys, i + 1)
    IN  /\ storage.keys # <<>>
        /\ storage' =
              [keys |-> IF chainId # NoChain
                        THEN removeItem(storage.keys,
                                        [prefix |-> PUBLIC_KEY_CACHE_PREFIX,
                                         suffix |-> chainId])
                        ELSE Loop(storage.keys, 0),
               op |-> IF chainId # NoChain THEN "PublicKeyStorage.clear(chainId)"
                      ELSE "PublicKeyStorage.clear()",
               before |-> storage.keys]
        /\ PageFrame("storage")

\* FhevmDecryptionSignature.clearAll(): the keys with the prefix are
\* collected first, then each of them is removed.
clearAll ==
    LET collected == SelectSeq(storage.keys,
                               LAMBDA k : startsWith(k, SIGNATURE_CACHE_PREFIX))
        RECURSIVE forEach(_, _)
        forEach(keys, list) ==
            IF list = <<>> THEN keys
            ELSE forEach(removeItem(keys, Head(list)), Tail(list))
    IN  /\ storage.keys # <<>>
        /\ storage' = [keys |-> forEach(storage.keys, collected),
                       op |-> "FhevmDecryptionSignature.clearAll()",
                       before |-> storage.keys]
        /\ PageFrame("storage")

StorageNext ==
    \/ \E key \in StorageKeys : setItem(key)
    \/ \E chainId \in {NoChain} \cup Chains : PublicKeyStorage_clear(chainId)
    \/ clearAll

SpecStorage == Init /\ [][StorageNext]_vars

(***************************************************************************)
(* The summary page: loadSummary reads the count of the history and, in a  *)
(* loop, a record per index, decrypts it and counts its tier.              *)
(* summaryPage.read lists the indices passed to getMetricsAtIndex.         *)
(***************************************************************************)
\* Bound: the length of the principal's history.
MaxRecords == 11

\* loadSummary up to the loop: getSummary and getHistoryCount return (count)
\* or one of them throws.
loadSummary(ok, count) ==
    /\ summaryPage.pc = "idle"
    /\ summaryPage' =
          IF ~ok THEN [summaryPage EXCEPT !.pc = "failed", !.isLoading = FALSE]
          ELSE [summaryPage EXCEPT
                  !.pc = "loop", !.isLoading = TRUE, !.count = count,
                  !.maxRecords = IF count < 10 THEN count ELSE 10,
                  !.i = 0, !.safeCount = 0, !.moderateCount = 0, !.highCount = 0]
    /\ PageFrame("summaryPage")

\* One round of the loop: getMetricsAtIndex(i) and decryptRecord(record)
\* give the tier of the record, or one of them throws and the record is
\* skipped.
loadSummaryRecord(decrypted, cautionWindow) ==
    /\ summaryPage.pc = "loop"
    /\ summaryPage.i < summaryPage.maxRecords
    /\ summaryPage' =
          LET next == [summaryPage EXCEPT !.i = @ + 1,
                                          !.read = Append(@, summaryPage.i)]
          IN  IF ~decrypted THEN next
              ELSE IF cautionWindow = 0 THEN [next EXCEPT !.safeCount = @ + 1]
              ELSE IF cautionWindow = 1 THEN [next EXCEPT !.moderateCount = @ + 1]
              ELSE [next EXCEPT !.highCount = @ + 1]
    /\ PageFrame("summaryPage")

\* The loop has ended: setDistribution, and setIsLoading(false) in finally.
loadSummaryEnd ==
    /\ summaryPage.pc = "loop"
    /\ summaryPage.i >= summaryPage.maxRecords
    /\ summaryPage' =
          [summaryPage EXCEPT
             !.pc = "done", !.isLoading = FALSE,
             !.distribution = [safe |-> summaryPage.safeCount,
                               moderate |-> summaryPage.moderateCount,
                               high |-> summaryPage.highCount]]
    /\ PageFrame("summaryPage")

SummaryNext ==
    \/ \E ok \in BOOLEAN, count \in 0..MaxRecords : loadSummary(ok, count)
    \/ \E decrypted \in BOOLEAN, cautionWindow \in 0..2 :
          loadSummaryRecord(decrypted, cautionWindow)
    \/ loadSummaryEnd

SpecSummary == Init /\ [][SummaryNext]_vars

(***************************************************************************)
(* Properties of the record ledger and the authorization ledger (Spec).    *)
(***************************************************************************)
\* The records of a user's committed submissions, in commit order.
RECURSIVE CommitsOf(_, _)
CommitsOf(log, u) ==
    IF log = <<>> THEN <<>>
    ELSE IF Head(log).user = u
         THEN <<Head(log).record>> \o CommitsOf(Tail(log), u)
         ELSE CommitsOf(Tail(log), u)

\* C1: for every principal, submissionCount equals the length of the
\* principal's History, in every reachable state.
C1_CountEqualsHistoryLength ==
    \A u \in Users : submissionCount[u] = getHistoryCount(u)

C1_Witness ==
    \E u, v \in Users :
        /\ u # v
        /\ submissionCount[u] >= 2
        /\ submissionCount[v] >= 1

\* C2: Latest is absent (timestamp 0) while History is empty, and otherwise
\* holds the five handles and the timestamp of History's last element.
C2_LatestIsLastOfHistory ==
    \A u \in Users :
        IF Len(userHistory[u]) = 0
        THEN latestMetrics[u].timestamp = 0 /\ latestMetrics[u] = EmptyRecord
        ELSE latestMetrics[u] = userHistory[u][Len(userHistory[u])]

C2_Witness ==
    \E u \in Users :
        /\ Len(userHistory[u]) >= 2
        /\ userHistory[u][1] # userHistory[u][2]
        /\ latestMetrics[u] = userHistory[u][Len(userHistory[u])]

\* C3: after a principal's N successful submissions, interleaved with other
\* principals' calls, getHistoryCount returns N and getMetricsAtIndex(i)
\* returns the record of the (i+1)-th committed submission, for i in [0,N).
C3_HistoryIsCommitOrder ==
    \A u \in Users :
        LET mine == CommitsOf(commitLog, u)
        IN  /\ getHistoryCount(u) = Len(mine)
            /\ \A i \in 0..(Len(mine) - 1) :
                   /\ getMetricsAtIndex(u, i).ok
                   /\ getMetricsAtIndex(u, i).record = mine[i + 1]

C3_Witness ==
    \E u, v \in Users :
        /\ u # v
        /\ Len(commitLog) = 3
        /\ commitLog[1].user = u /\ commitLog[2].user = v /\ commitLog[3].user = u
        /\ commitLog[1].record # commitLog[3].record
        /\ getMetricsAtIndex(u, 1).record = commitLog[3].record

\* C7: classification is deterministic: any two committed records whose
\* three inputs decrypt to the same plaintexts have scores and tiers that
\* decrypt to the same values, whoever submitted them and whenever.
C7_ClassifyDeterministic ==
    \A u, v \in Users :
        \A i \in 1..Len(userHistory[u]), j \in 1..Len(userHistory[v]) :
            LET a == userHistory[u][i]
                b == userHistory[v][j]
            IN  (/\ Plain(a.emotionalFluctuation) = Plain(b.emotionalFluctuation)
                 /\ Plain(a.socialFatigue) = Plain(b.socialFatigue)
                 /\ Plain(a.sleepDebt) = Plain(b.sleepDebt))
                => (/\ Plain(a.riskScore) = Plain(b.riskScore)
                    /\ Plain(a.cautionWindow) = Plain(b.cautionWindow))

C7_Witness ==
    \E u, v \in Users :
        /\ u # v
        /\ Len(userHistory[u]) >= 1 /\ Len(userHistory[v]) >= 1
        /\ LET a == userHistory[u][1]
               b == userHistory[v][1]
           IN  /\ a.riskScore # b.riskScore
               /\ a.timestamp # b.timestamp
               /\ Plain(a.emotionalFluctuation) = Plain(b.emotionalFluctuation)
               /\ Plain(a.socialFatigue) = Plain(b.socialFatigue)
               /\ Plain(a.sleepDebt) = Plain(b.sleepDebt)
               /\ Plain(a.riskScore) = Plain(b.riskScore)
               /\ Plain(a.riskScore) = 3700

\* C8: immediately after every successful submitMetrics by a principal, the
\* ACL holds a grant for the principal and a grant for the contract address
\* on each of the five handles of the new record.
C8_GrantsAfterSubmit ==
    [][\A u \in Users :
          Len(commitLog') = Len(commitLog) + 1 /\ commitLog'[Len(commitLog')].user = u
          => LET record == commitLog'[Len(commitLog')].record
             IN  /\ Cardinality(RecordHandles(record)) = 5
                 /\ \A h \in RecordHandles(record) :
                        <<h, u>> \in acl' /\ <<h, This>> \in acl']_vars

C8_Witness ==
    \E u \in Users :
        /\ Len(userHistory[u]) = 1
        /\ \A h \in RecordHandles(userHistory[u][1]) :
               isAuthorized(h, u) /\ isAuthorized(h, This)

\* C9: isolation: the grantees on every handle of a record owned by a
\* principal are among the principal and the contract address; no other
\* principal ever holds a grant on it.
C9_GranteesAreOwnerOrContract ==
    \A u \in Users :
        \A i \in 1..Len(userHistory[u]) :
            \A h \in RecordHandles(userHistory[u][i]) :
                \A g \in Users \cup {This} :
                    isAuthorized(h, g) => g \in {u, This}

C9_Witness ==
    \E u, v \in Users :
        /\ u # v
        /\ Len(userHistory[u]) >= 1 /\ Len(userHistory[v]) >= 1
        /\ \A h \in RecordHandles(userHistory[u][1]) :
               isAuthorized(h, u) /\ ~isAuthorized(h, v)

\* The events the committed submissions account for: two for each, in
\* commit order, with the index the record has in its owner's History.
RECURSIVE EventsOfCommits(_, _)
EventsOfCommits(log, n) ==
    IF n = 0 THEN <<>>
    ELSE LET c == log[n]
             earlier == Len(CommitsOf(SubSeq(log, 1, n - 1), c.user))
         IN  EventsOfCommits(log, n - 1) \o
             <<[name |-> "MetricsSubmitted", user |-> c.user,
                timestamp |-> c.record.timestamp, recordIndex |-> earlier],
               [name |-> "CautionWindowUpdated", user |-> c.user,
                timestamp |-> c.record.timestamp]>>

\* C32: for every principal the two has-submitted indicators agree:
\* getSummary().totalSubmissions > 0 exactly when the latest timestamp is
\* positive, which is exactly when getRiskScore, getCautionWindow and
\* getLatestMetrics return instead of reverting.
C32_IndicatorsAgree ==
    \A u \in Users :
        LET submitted == getSummary(u).totalSubmissions > 0
        IN  /\ submitted <=> (latestMetrics[u].timestamp > 0)
            /\ submitted <=> (getSummary(u).lastTimestamp > 0)
            /\ submitted <=> getRiskScore(u).ok
            /\ submitted <=> getCautionWindow(u).ok
            /\ submitted <=> getLatestMetrics(u).ok

C32_Witness ==
    \E u, v \in Users :
        /\ getSummary(u).totalSubmissions = 2
        /\ getRiskScore(u).ok /\ getCautionWindow(u).ok /\ getLatestMetrics(u).ok
        /\ getSummary(v).totalSubmissions = 0
        /\ ~getRiskScore(v).ok /\ ~getCautionWindow(v).ok /\ ~getLatestMetrics(v).ok

\* C20: every successful submitMetrics by P emits exactly two events, in
\* order MetricsSubmitted(P, timestamp, recordIndex) and
\* CautionWindowUpdated(P, timestamp), with the timestamp stored in the new
\* record and the record's 0-based index; nothing else emits an event.
C20_TwoEventsPerSubmit ==
    events = EventsOfCommits(commitLog, Len(commitLog))

C20_Witness ==
    /\ Len(commitLog) = 3
    /\ Len(events) = 6
    /\ commitLog[1].user = commitLog[3].user
    /\ commitLog[1].user # commitLog[2].user
    /\ events[5].recordIndex = 1
    /\ events[3].recordIndex = 0
    /\ events[5].timestamp # events[1].timestamp
    /\ events[6].name = "CautionWindowUpdated"

\* C21: records are immutable and never deleted: a record getMetricsAtIndex
\* returns for a principal is returned unchanged (five handles, timestamp)
\* in every later state, and no History ever gets shorter.
C21_RecordsImmutable ==
    [][\A u \in Users :
          /\ Len(userHistory'[u]) >= Len(userHistory[u])
          /\ \A i \in 1..Len(userHistory[u]) :
                 userHistory'[u][i] = userHistory[u][i]]_vars

C21_Witness ==
    \E u \in Users :
        /\ Len(userHistory[u]) = 3
        /\ getMetricsAtIndex(u, 0).record = commitLog[1].record
        /\ getMetricsAtIndex(u, 0).record # getMetricsAtIndex(u, 2).record
        /\ getMetricsAtIndex(u, 0).record.timestamp < getMetricsAtIndex(u, 2).record.timestamp

(***************************************************************************)
(* Properties of the calls and their outcomes (SpecCalls).                 *)
(***************************************************************************)
Accounts == Users \cup {This}

\* C11: grants are additive only: no step of the contract removes a grant,
\* so a grant that holds in one state holds in every later state.
C11_GrantsAdditive == [][acl \subseteq acl']_vars

C11_Witness ==
    /\ Len(commitLog) >= 2
    /\ commitLog[1].user # commitLog[2].user
    /\ lastCall.op \in {"reauthorizeRecord", "reauthorizeAllRecords"}
    /\ lastCall.ok
    /\ \A h \in RecordHandles(commitLog[1].record) :
           isAuthorized(h, commitLog[1].user)

OwnGrants(u) ==
    {<<h, g>> : h \in UNION {RecordHandles(userHistory[u][i]) :
                                i \in 1..Len(userHistory[u])},
                g \in {u, This}}

\* C13: reauthorizeRecord and reauthorizeAllRecords change only grants: they
\* leave every History, Latest and counter as they are, add grants only for
\* the caller and the contract on the caller's own record handles, and leave
\* the whole ledger unchanged when those grants already hold.
C13_ReauthorizeOnlyGrants ==
    [][lastCall'.op \in {"reauthorizeRecord", "reauthorizeAllRecords"} =>
          LET sender == lastCall'.sender
          IN  /\ UNCHANGED <<userHistory, latestMetrics, submissionCount>>
              /\ acl \subseteq acl'
              /\ (acl' \ acl) \subseteq OwnGrants(sender)
              /\ ReauthorizeLoop({}, userHistory[sender], sender, 0,
                                 Len(userHistory[sender])) = OwnGrants(sender)
              /\ (OwnGrants(sender) \subseteq acl => UNCHANGED ledgerVars)]_vars

C13_Witness ==
    /\ lastCall.op = "reauthorizeAllRecords"
    /\ Len(userHistory[lastCall.sender]) >= 2
    /\ \E v \in Users : v # lastCall.sender /\ Len(userHistory[v]) >= 1
    /\ OwnGrants(lastCall.sender) \subseteq acl

\* C14: for every principal state, count 0 included, getMetricsAtIndex and
\* reauthorizeRecord with index >= History length fail with "Index out of
\* bounds" and leave records and grants unchanged; with index < History
\* length they succeed.
C14_IndexOutOfBounds ==
    /\ [](\A u \in Users, index \in 0..(MaxSubmissions + 1) :
             LET r == getMetricsAtIndex(u, index)
             IN  IF index < Len(CommitsOf(commitLog, u))
                 THEN r.ok /\ r.record = CommitsOf(commitLog, u)[index + 1]
                 ELSE ~r.ok /\ r.error = "Index out of bounds")
    /\ [][lastCall'.op = "reauthorizeRecord" =>
             IF lastCall'.arg < Len(CommitsOf(commitLog, lastCall'.sender))
             THEN lastCall'.ok /\ lastCall'.error = ""
             ELSE /\ ~lastCall'.ok
                  /\ lastCall'.error = "Index out of bounds"
                  /\ UNCHANGED ledgerVars]_vars

C14_Witness ==
    /\ lastCall.op = "reauthorizeRecord"
    /\ ~lastCall.ok
    /\ lastCall.arg = Len(userHistory[lastCall.sender])
    /\ lastCall.arg >= 1
    /\ getMetricsAtIndex(lastCall.sender, lastCall.arg - 1).ok
    /\ ~getMetricsAtIndex(lastCall.sender, lastCall.arg).ok
    /\ \E v \in Users : Len(userHistory[v]) = 0 /\ ~getMetricsAtIndex(v, 0).ok

NeverSubmitted(u) == CommitsOf(commitLog, u) = <<>>
NoSubmission == [ok |-> FALSE, error |-> "No metrics submitted yet"]

\* C15: a principal who has never successfully submitted gets "No metrics
\* submitted yet" from getLatestMetrics, getRiskScore and getCautionWindow,
\* however many submissions others have made; from the principal's first
\* successful submission on, the three accessors succeed, returning the
\* fields of the principal's last record.
C15_NoSubmissionUntilFirstSubmit ==
    \A u \in Users :
        IF NeverSubmitted(u)
        THEN /\ getLatestMetrics(u) = NoSubmission
             /\ getRiskScore(u) = NoSubmission
             /\ getCautionWindow(u) = NoSubmission
        ELSE LET mine == CommitsOf(commitLog, u)
                 last == mine[Len(mine)]
             IN  /\ getLatestMetrics(u) =
                       [ok |-> TRUE,
                        ret |-> <<last.emotionalFluctuation, last.socialFatigue,
                                  last.sleepDebt, last.timestamp>>]
                 /\ getRiskScore(u) = [ok |-> TRUE, ret |-> last.riskScore]
                 /\ getCautionWindow(u) = [ok |-> TRUE, ret |-> last.cautionWindow]

C15_Witness ==
    \E u, v \in Users :
        /\ NeverSubmitted(u)
        /\ Len(CommitsOf(commitLog, v)) >= 2
        /\ ~getRiskScore(u).ok
        /\ getRiskScore(v).ok
        /\ lastCall.op = "submitMetrics" /\ lastCall.sender = u /\ ~lastCall.ok

\* C16 as stated: before a principal's first submit every per-principal
\* accessor (score, tier, latest, at-index, count, summary) fails with
\* "No metrics submitted yet".
C16_AllAccessorsFailBeforeSubmit ==
    \A u \in Users :
        NeverSubmitted(u) =>
            \A op \in {"getRiskScore", "getCautionWindow", "getLatestMetrics",
                        "getMetricsAtIndex", "getHistoryCount", "getSummary"} :
                AccessorOutcome(op, u, 0) = NoSubmission

\* C16 as amended: before a principal's first submit getRiskScore,
\* getCautionWindow and getLatestMetrics fail with "No metrics submitted
\* yet", getMetricsAtIndex fails with "Index out of bounds" for every
\* index, and getHistoryCount and getSummary do not fail: they return 0 and
\* (0, 0).
C16_AccessorsBeforeSubmit ==
    \A u \in Users :
        NeverSubmitted(u) =>
            /\ \A op \in {"getRiskScore", "getCautionWindow", "getLatestMetrics"} :
                   AccessorOutcome(op, u, 0) = NoSubmission
            /\ \A index \in 0..MaxSubmissions :
                   AccessorOutcome("getMetricsAtIndex", u, index) =
                       [ok |-> FALSE, error |-> "Index out of bounds"]
            /\ AccessorOutcome("getHistoryCount", u, 0) = Returned
            /\ getHistoryCount(u) = 0
            /\ AccessorOutcome("getSummary", u, 0) = Returned
            /\ getSummary(u) = [totalSubmissions |-> 0, lastTimestamp |-> 0]

C16_Witness ==
    \E u, v \in Users :
        /\ NeverSubmitted(u)
        /\ HasEncrypted(u)
        /\ ~NeverSubmitted(v)
        /\ getHistoryCount(u) = 0
        /\ getHistoryCount(v) >= 1

\* C17: getHistoryCount and getSummary never fail: getHistoryCount returns
\* the caller's History length (0 before any submission) and getSummary
\* returns (History length, timestamp of the caller's last record), which
\* is (0, 0) for a principal who never submitted.
C17_CountAndSummaryNeverFail ==
    \A u \in Users :
        LET mine == CommitsOf(commitLog, u)
        IN  /\ AccessorOutcome("getHistoryCount", u, 0).ok
            /\ AccessorOutcome("getSummary", u, 0).ok
            /\ getHistoryCount(u) = Len(mine)
            /\ getSummary(u) =
                  [totalSubmissions |-> Len(mine),
                   lastTimestamp |-> IF Len(mine) = 0 THEN 0
                                     ELSE mine[Len(mine)].timestamp]

C17_Witness ==
    \E u, v \in Users :
        /\ getSummary(u) = [totalSubmissions |-> 0, lastTimestamp |-> 0]
        /\ getSummary(v).totalSubmissions = 2
        /\ getSummary(v).lastTimestamp > 0
        /\ getHistoryCount(v) = 2

\* C18: submitMetrics is atomic: a call whose proof was made for another
\* sender fails and leaves History, Latest, counter, grants and event log
\* unchanged; a call that succeeds stores the record, updates Latest and the
\* counter, issues the ten grants and emits its events in the same step.
C18_SubmitAtomic ==
    [][lastCall'.op = "submitMetrics" =>
          LET u == lastCall'.sender
              n == Len(userHistory[u])
          IN  IF encrypted[lastCall'.arg].user # u
                 \/ encrypted[lastCall'.arg].contract # This
              THEN /\ ~lastCall'.ok
                   /\ UNCHANGED <<userHistory, latestMetrics, submissionCount,
                                  acl, events, commitLog>>
              ELSE /\ lastCall'.ok
                   /\ Len(userHistory'[u]) = n + 1
                   /\ SubSeq(userHistory'[u], 1, n) = userHistory[u]
                   /\ latestMetrics'[u] = userHistory'[u][n + 1]
                   /\ submissionCount'[u] = submissionCount[u] + 1
                   /\ \A h \in RecordHandles(userHistory'[u][n + 1]) :
                          /\ h # NoHandle
                          /\ <<h, u>> \in acl'
                          /\ <<h, This>> \in acl'
                   /\ Len(events') = Len(events) + 2]_vars

C18_Witness ==
    /\ lastCall.op = "submitMetrics"
    /\ ~lastCall.ok
    /\ encrypted[lastCall.arg].user # lastCall.sender
    /\ Len(userHistory[lastCall.sender]) >= 1
    /\ Len(userHistory[encrypted[lastCall.arg].user]) >= 1

\* The handles of a user's records.
HandlesOfUser(history, u) ==
    UNION {RecordHandles(history[u][i]) : i \in 1..Len(history[u])}

\* C19: principals are independent: a call by principal A leaves the
\* History, Latest, counter and the grants on the handles of every other
\* principal B unchanged.
C19_PrincipalsIndependent ==
    [][\A b \in Users :
          b # lastCall'.sender =>
              /\ userHistory'[b] = userHistory[b]
              /\ latestMetrics'[b] = latestMetrics[b]
              /\ submissionCount'[b] = submissionCount[b]
              /\ \A h \in HandlesOfUser(userHistory, b), g \in Accounts :
                     (<<h, g>> \in acl') <=> (<<h, g>> \in acl)]_vars

C19_Witness ==
    \E b \in Users :
        /\ lastCall.op \in {"submitMetrics", "reauthorizeAllRecords"}
        /\ lastCall.ok
        /\ b # lastCall.sender
        /\ Len(userHistory[lastCall.sender]) >= 2
        /\ Len(userHistory[b]) >= 1
        /\ latestMetrics[b] # latestMetrics[lastCall.sender]

(***************************************************************************)
(* Properties of the disclosure protocol (SpecDisclosure).                 *)
(***************************************************************************)
\* C10: a disclosure request by a principal resolves only if, when the
\* oracle checked it, the ACL held a grant for that principal on every
\* handle of the batch; a batch with a handle lacking the grant does not
\* resolve, and nothing is returned for it.
C10_DisclosureNeedsGrant ==
    /\ (session.pc = "Resolved" /\ session.handles # <<>>) =>
           /\ session.grantedAtCheck
           /\ Len(session.result) = Len(session.handles)
    /\ (session.pc = "Failed") => session.result = <<>>

C10_Witness ==
    /\ session.pc = "Failed"
    /\ session.oracleCalls = 1
    /\ session.error = "Failed to decrypt handle"
    /\ Len(session.handles) = 2
    /\ isAuthorized(session.handles[1], session.user)
    /\ ~isAuthorized(session.handles[2], session.user)

\* Whether a stage is among those the session has passed.
Passed(stage) == \E i \in 1..Len(session.stages) : session.stages[i] = stage

\* C22: a disclosure session for a batch of N >= 1 handles requests exactly
\* one signature, whatever N: once the session has asked the signer it has
\* asked once, and it never asks again, also when the oracle call fails.
C22_OneSignaturePerBatch ==
    /\ session.sigRequests <= 1
    /\ (session.pc \in {"AwaitSignature", "AwaitOracle"}) =>
           /\ Len(session.handles) >= 1
           /\ session.sigRequests = 1
    /\ (session.pc \in {"Resolved", "Failed"} /\ Passed("StatementBuilt")) =>
           session.sigRequests = 1
    /\ (session.oracleCalls >= 1) => session.sigRequests = 1

C22_Witness ==
    /\ session.pc = "Failed"
    /\ session.oracleCalls = 1
    /\ session.error = "oracle error"
    /\ Len(session.handles) = 5
    /\ session.sigRequests = 1

\* C23: disclosure is all-or-nothing: when the oracle's response lacks a
\* plaintext for a requested handle, userDecryptBatch fails as a whole and
\* returns no plaintext for any handle of the batch; what it returns when it
\* resolves is never a part of the batch.
C23_AllOrNothing ==
    /\ session.incomplete =>
           /\ session.pc = "Failed"
           /\ session.error \in {"Failed to decrypt handle",
                                 "Unexpected result type: bigint"}
           /\ session.result = <<>>
    /\ (session.pc = "Resolved") =>
           /\ ~session.incomplete
           /\ Len(session.result) = Len(session.handles)

\* The first four handles of a record were answered, the fifth was not.
C23_Witness ==
    /\ session.incomplete
    /\ session.pc = "Failed"
    /\ session.error = "Failed to decrypt handle"
    /\ Len(session.handles) = 5
    /\ session.grantedAtCheck
    /\ session.result = <<>>

\* The encrypted input whose handles a record holds.
InputOf(r) == CHOOSE k \in 1..Len(encrypted) : r.emotionalFluctuation = HandleOf(k, 1)

\* C24: when a batch of N granted handles resolves, the result has N
\* plaintexts and the i-th is the value of the i-th requested handle, also
\* when a handle is named twice; for the five handles of a record they are
\* the three values that were encrypted and the score and the tier computed
\* from them.
C24_DisclosureRoundTrip ==
    (session.pc = "Resolved") =>
        /\ Len(session.result) = Len(session.handles)
        /\ \A i \in 1..Len(session.handles) :
               session.result[i] = Plain(session.handles[i])
        /\ \A r \in AllRecords :
               (session.handles = RecordBatch(r)) =>
                   LET in == encrypted[InputOf(r)].plain
                       out == _calculateRiskScore(in[1], in[2], in[3])
                   IN  session.result =
                           <<in[1], in[2], in[3], out.riskScore, out.cautionWindow>>

C24_Witness ==
    /\ session.pc = "Resolved"
    /\ Len(session.handles) = 5
    /\ session.result = <<100, 100, 100, 3700, 2>>
    /\ session.sigRequests = 1

\* A batch that names the tier's handle twice, around the score's.
C24_WitnessRepeated ==
    /\ session.pc = "Resolved"
    /\ session.result = <<1, 1200, 1>>

(***************************************************************************)
(* Properties of requests one after another (SpecRequests).                *)
(***************************************************************************)
\* A request passes its checks and generates its keypair in this step.
StartsRequest == session.pc = "Idle" /\ session'.keypair # NoKey

\* C25: every userDecrypt and userDecryptBatch call generates a keypair of
\* its own and asks for a signature of its own: the keypair is none of the
\* keypairs generated before, the signature is over the statement that holds
\* this keypair's public key, and the calls neither write the signature
\* cache nor look into it (a call asks the signer also when the cache holds
\* a signature for the account).
C25_FreshKeypairAndSignature ==
    /\ [](/\ (session.keypair # NoKey) => session.keypair = keysGenerated
          /\ (session.signature # NoSignature) =>
                 /\ session.signature.message.publicKey = session.keypair
                 /\ session.sigRequests = 1)
    /\ [][/\ StartsRequest =>
                 /\ session'.keypair \notin 1..keysGenerated
                 /\ keysGenerated' = keysGenerated + 1
                 /\ session'.statement.publicKey = session'.keypair
                 /\ session'.signature = NoSignature
                 /\ session'.sigRequests = 1
          /\ (session' # session \/ keysGenerated' # keysGenerated) =>
                 signatureCache' = signatureCache]_vars

\* The second request of an account whose signature is in the cache has its
\* own keypair and has asked the signer.
C25_Witness ==
    /\ session.pc = "AwaitOracle"
    /\ keysGenerated = 2
    /\ session.keypair = 2
    /\ session.sigRequests = 1
    /\ FhevmDecryptionSignature_get(
           [account |-> session.user, contract |-> NoContract,
            mixedCase |-> TRUE]) # "null"

StageOrder == <<"Init", "KeypairGenerated", "StatementBuilt", "Signed", "Submitted">>
IsPrefix(a, b) == Len(a) <= Len(b) /\ \A i \in 1..Len(a) : a[i] = b[i]

OracleError == [ok |-> FALSE, form |-> "none", values |-> <<>>]

\* C27: Failed can be reached from every stage a session rests in (the
\* signer rejects, the oracle fails); a failed session has an error for the
\* caller and nothing else: no result, no keypair, no statement, no
\* signature; it has asked the signer and the oracle at most once and does
\* not go on by itself; a retry is a new call, with a new keypair.
C27_FailureEndsSession ==
    /\ [](/\ (session.pc = "AwaitSignature") => ENABLED SignatureRejected
          /\ (session.pc = "AwaitOracle") => ENABLED OracleResponds(OracleError)
          /\ (session.pc = "Failed") =>
                 /\ session.error # ""
                 /\ session.result = <<>>
                 /\ session.keypair = NoKey
                 /\ session.statement = NoStatement
                 /\ session.signature = NoSignature
                 /\ session.request = NoRequest
                 /\ session.sigRequests <= 1
                 /\ session.oracleCalls <= 1)
    /\ [][/\ (session.pc = "Failed") =>
                 /\ session' \in {session, IdleSession}
                 /\ keysGenerated' = keysGenerated
          /\ StartsRequest =>
                 /\ session'.stages[1] = "Init"
                 /\ session'.keypair > keysGenerated]_vars

\* The second call of a page failed at the oracle.
C27_Witness ==
    /\ session.pc = "Failed"
    /\ session.error = "oracle error"
    /\ session.stages = StageOrder
    /\ keysGenerated = 2

\* userDecrypt fails between the keypair and the statement.
C27_WitnessKeypairGenerated ==
    /\ session.pc = "Failed"
    /\ session.stages = <<"Init", "KeypairGenerated">>

\* C28: a disclosure session never changes the ledgers: whatever step a
\* session takes (it starts, waits, resolves, fails, or is given up), every
\* principal's History, Latest and submissionCount and all grants are as
\* they were.
C28_SessionsLeaveLedger ==
    [][(session' # session \/ keysGenerated' # keysGenerated) =>
          /\ UNCHANGED <<userHistory, latestMetrics, submissionCount, acl>>
          /\ UNCHANGED <<cipher, encrypted, events, commitLog>>]_vars

\* A session over the handles of a record has failed; the record and the
\* grants on its handles are there.
C28_Witness ==
    /\ session.pc = "Failed"
    /\ session.error = "signature rejected"
    /\ Len(session.handles) = 5
    /\ submissionCount[1] = 1
    /\ \A i \in 1..5 : isAuthorized(session.handles[i], 1)
    /\ RecordBatch(latestMetrics[1]) = session.handles

\* What the statement of a session binds, and what is sent to the oracle:
\* the session's public key, the contract address given to the call, the
\* time of the call as start and 365 days as duration; the oracle gets these
\* very values with the signature over them, and every pair names the
\* contract of the statement.
StatementAsSigned ==
    /\ (session.pc = "AwaitSignature") =>
           /\ session.statement.publicKey = session.keypair
           /\ session.statement.contractAddresses = <<This>>
           /\ session.statement.startTimestamp = now
           /\ session.statement.durationDays = 365
    /\ (session.pc = "AwaitOracle") =>
           /\ session.signature.message = session.statement
           /\ session.request.signature = session.signature
           /\ session.request.publicKey = session.statement.publicKey
           /\ session.request.contractAddresses = session.statement.contractAddresses
           /\ session.request.startTimestamp = session.statement.startTimestamp
           /\ session.request.durationDays = session.statement.durationDays
           /\ Len(session.request.pairs) = Len(session.handles)
           /\ \A i \in 1..Len(session.request.pairs) :
                  /\ session.request.pairs[i].handle = session.handles[i]
                  /\ session.request.pairs[i].contractAddress =
                        session.statement.contractAddresses[1]

\* C29: the statement of a session binds the session's public key, the
\* target contract address, start = now, duration = 365 days and a freshness
\* nonce, and the oracle is sent the values of the signed statement, every
\* pair naming the statement's contract.  (The statement the code has built
\* holds no nonce.)
C29_StatementBindsNonce ==
    /\ StatementAsSigned
    /\ (session.pc \in {"AwaitSignature", "AwaitOracle"}) =>
           "nonce" \in DOMAIN session.statement

\* The call has generated no keypair, built no statement, asked the signer
\* for nothing and has not called the oracle.
NoInteraction ==
    /\ keysGenerated' = keysGenerated
    /\ session'.keypair = NoKey
    /\ session'.statement = NoStatement
    /\ session'.sigRequests = 0
    /\ session'.oracleCalls = 0
    /\ session'.pc \notin {"AwaitSignature", "AwaitOracle"}

\* The preconditions userDecryptBatch names in its checks.
InvalidPreconditions(instanceReady, account, contractAddress, methodsReady) ==
    \/ ~instanceReady
    \/ account = NoAccount
    \/ ~contractAddress.given
    \/ ~contractAddress.prefix0x
    \/ contractAddress.length # AddressLength
    \/ ~methodsReady

\* C33, as stated: a call of userDecryptBatch with an uninitialized instance,
\* no account, a missing or malformed contract address or missing methods
\* fails, and it generates no keypair, requests no signature and does not
\* call the oracle.
C33_RejectsInvalid ==
    [][(session.pc = "Idle" /\ session'.pc # "Idle") =>
       \A instanceReady \in BOOLEAN, account \in {NoAccount} \cup Users,
          handles \in Batches, contractAddress \in ContractArgs,
          methodsReady \in BOOLEAN :
          (/\ InvalidPreconditions(instanceReady, account, contractAddress,
                                   methodsReady)
           /\ userDecryptBatch(instanceReady, account, handles, contractAddress,
                               methodsReady))
          => (/\ session'.pc = "Failed"
              /\ session'.error # ""
              /\ NoInteraction)]_vars

\* C33, amended: such a call generates no keypair, requests no signature and
\* does not call the oracle; it fails unless the instance is initialized, an
\* account is connected and the batch is empty, in which case it resolves
\* with the empty result whatever the contract address and the methods are.
C33_RejectsInvalidNonEmpty ==
    [][(session.pc = "Idle" /\ session'.pc # "Idle") =>
       \A instanceReady \in BOOLEAN, account \in {NoAccount} \cup Users,
          handles \in Batches, contractAddress \in ContractArgs,
          methodsReady \in BOOLEAN :
          (/\ InvalidPreconditions(instanceReady, account, contractAddress,
                                   methodsReady)
           /\ userDecryptBatch(instanceReady, account, handles, contractAddress,
                               methodsReady))
          => (/\ NoInteraction
              /\ IF instanceReady /\ account # NoAccount /\ Len(handles) = 0
                 THEN session'.pc = "Resolved" /\ session'.result = <<>>
                 ELSE session'.pc = "Failed" /\ session'.error # "")]_vars

\* A call with a malformed contract address has failed after an earlier
\* session generated a keypair: the count of keypairs is still one.
C33_Witness ==
    /\ session.pc = "Failed"
    /\ session.error = "Invalid contractAddress format"
    /\ session.stages = <<"Init">>
    /\ session.keypair = NoKey
    /\ session.sigRequests = 0
    /\ session.oracleCalls = 0
    /\ keysGenerated = 1

\* C34: with the instance initialized and an account connected, a call of
\* userDecryptBatch with an empty batch resolves in the same step with the
\* empty result: no keypair, no signature request, no oracle call.
C34_EmptyBatchResolves ==
    [][(session.pc = "Idle" /\ session'.pc # "Idle") =>
       \A account \in Users, contractAddress \in ContractArgs,
          methodsReady \in BOOLEAN :
          userDecryptBatch(TRUE, account, <<>>, contractAddress, methodsReady)
          => (/\ session'.pc = "Resolved"
              /\ session'.result = <<>>
              /\ session'.error = ""
              /\ session'.stages = <<"Init">>
              /\ NoInteraction)]_vars

C34_Witness ==
    /\ session.pc = "Resolved"
    /\ session.stages = <<"Init">>
    /\ session.result = <<>>
    /\ session.error = ""
    /\ session.sigRequests = 0
    /\ session.oracleCalls = 0
    /\ keysGenerated = 0

(***************************************************************************)
(* Properties of the wallet hook (SpecWallet).                             *)
(***************************************************************************)
\* What the silent reconnect path does at each of its steps: it asks with
\* eth_accounts and eth_chainId only; it starts only with the persisted
\* flag set and the last connector discovered; it connects only with a
\* non-empty answer whose first account is the persisted one; otherwise it
\* clears the flag and does not touch the runtime state.
SilentReconnectSteps ==
    /\ [](<<"silentReconnect", "eth_requestAccounts">> \notin wallet.requests)
    /\ [][LET r == wallet.reconnect
              r2 == wallet'.reconnect
          IN  /\ (r.pc = "idle" /\ r2.pc = "AwaitAccounts") =>
                     /\ wallet.connected
                     /\ Discovered(wallet.lastConnectorId)
              /\ (r.pc # "idle" /\ r2.outcome = "connected") =>
                     /\ r.accounts # <<>>
                     /\ First(r.accounts) = First(r.lastAccounts)
                     /\ wallet'.walletState.isConnected
                     /\ wallet'.walletState.account = First(r.accounts)
              /\ (r.pc # "idle" /\ r2.outcome = "cleared") =>
                     /\ ~wallet'.connected
                     /\ wallet'.walletState = wallet.walletState]_vars

\* C30: the silent reconnect path never issues eth_requestAccounts, runs
\* only when the persisted connected flag is true and the last connector is
\* among the discovered providers, becomes connected only if eth_accounts
\* returns a non-empty list whose first account is the persisted
\* lastAccounts[0], and otherwise clears the persisted flag and leaves the
\* wallet state disconnected.  (A run of the path on a page that is
\* connected already clears the flag and leaves the state connected.)
C30_SilentReconnect ==
    /\ SilentReconnectSteps
    /\ [][(wallet.reconnect.pc # "idle" /\ wallet'.reconnect.outcome = "cleared") =>
             ~wallet'.walletState.isConnected]_vars

\* isConnected = false implies account, chainId and provider are null.
DisconnectedIsCleared ==
    ~wallet.walletState.isConnected =>
        /\ wallet.walletState.account = NoAccount
        /\ wallet.walletState.chainId = NoChain
        /\ wallet.walletState.provider = NoConnector

\* isConnected = true implies account and provider are non-null.
ConnectedHasAccount ==
    wallet.walletState.isConnected =>
        /\ wallet.walletState.account # NoAccount
        /\ wallet.walletState.provider # NoConnector

\* accountsChanged with an empty list leaves the fully disconnected state
\* with the persisted flag false.
EmptyAccountsDisconnect ==
    [][\A provider \in Connectors :
          handleAccountsChanged(provider, <<>>)
          => /\ wallet'.walletState = WalletStateInit
             /\ ~wallet'.connected]_vars

\* C38: in every reachable state of the hook isConnected = false implies
\* account = null, chainId = null and provider = null, and isConnected =
\* true implies account and provider non-null, after any order of connect,
\* disconnect, silent reconnect and wallet events, also events delivered by
\* listeners registered before a disconnect; and accountsChanged with an
\* empty list results in the fully disconnected state with the persisted
\* connected flag false.
C38_ConnectionStateConsistent ==
    /\ []DisconnectedIsCleared
    /\ []ConnectedHasAccount
    /\ EmptyAccountsDisconnect

(***************************************************************************)
(* Properties of the FHEVM initialization (SpecFhevm).                     *)
(***************************************************************************)
\* isInitialized = true only with an instance installed.
InitializedHasInstance == fhevm.isInitialized => fhevm.fhevmInstance # NoInstance

\* A step of the superseded run i leaves fhevmInstance and isInitialized as
\* they are.
SupersededRunIsInert(i) ==
    (fhevm.runs[i].cancelled /\ fhevm'.runs[i].pc # fhevm.runs[i].pc)
    => /\ fhevm'.fhevmInstance = fhevm.fhevmInstance
       /\ fhevm'.isInitialized = fhevm.isInitialized

\* What holds of the await of createFhevmInstance: a run superseded while it
\* waits there installs nothing.
SupersededAtCreateIsInert ==
    [][\A i \in DOMAIN fhevm.runs :
          fhevm.runs[i].pc = "createFhevmInstance" => SupersededRunIsInert(i)]_vars

\* C35: initialization is cancellation-safe: a run of init() superseded by a
\* change of provider, chainId or contractAddress never installs its
\* instance and never sets isInitialized, whether the change arrived while
\* it awaited createFhevmInstance or getFhevmPublicKey; and isInitialized =
\* true implies that fhevmInstance is not null.
C35_CancellationSafe ==
    /\ []InitializedHasInstance
    /\ [][\A i \in DOMAIN fhevm.runs : SupersededRunIsInert(i)]_vars

(***************************************************************************)
(* Properties of the transaction status of the hook (SpecTx).              *)
(***************************************************************************)
\* txError is non-null exactly when txStatus is "error".
TxErrorExact == (tx.txError # "null") <=> (tx.txStatus = "error")

\* What holds while the calls do not overlap.
SequentialTxConsistent == ~tx.overlapped => TxErrorExact

\* C36: in every reachable state txError is non-null exactly when txStatus
\* is "error", so txStatus = "success" or "pending" implies txError = null,
\* also when submitMetrics and reauthorizeAllRecords are in flight at the
\* same time and complete in any order.
C36_TxErrorOnlyWithError ==
    /\ TxErrorExact
    /\ (tx.txStatus \in {"success", "pending"}) => tx.txError = "null"

(***************************************************************************)
(* Properties of the SDK loader (SpecSdk).                                 *)
(***************************************************************************)
\* At most one script element for the SDK URL is ever appended.
OneScriptElement == sdk.scripts <= 1

\* C37: at most one script element for the SDK URL is appended, and when
\* the script has loaded and defined window.relayerSDK, no call made in the
\* browser has been rejected: every call, also one made while the script of
\* an earlier call was loading, resolves with the SDK object.
C37_ConcurrentLoadsResolve ==
    /\ OneScriptElement
    /\ (sdk.script = "loaded" /\ sdk.relayerSDK) =>
           \A i \in DOMAIN sdk.calls :
               sdk.calls[i].env = "browser" => sdk.calls[i].outcome = "resolved"

(***************************************************************************)
(* Properties of the clearing of localStorage (SpecStorage).               *)
(***************************************************************************)
\* The last call removed all and only the keys that start with prefix: the
\* keys left are those of before without the prefix, in their order.
RemovedAllAndOnly(prefix) ==
    storage.keys = SelectSeq(storage.before, LAMBDA k : ~startsWith(k, prefix))

\* What holds of FhevmDecryptionSignature.clearAll().
ClearAllRemovesSignatures ==
    storage.op = "FhevmDecryptionSignature.clearAll()"
    => RemovedAllAndOnly(SIGNATURE_CACHE_PREFIX)

\* C39: after PublicKeyStorage.clear() without a chain id no key starting
\* with "fhevm.publicKey" remains, wherever such keys stood among the other
\* keys, and no other key is removed; after
\* FhevmDecryptionSignature.clearAll() all and only the keys starting with
\* "fhevm.decryptionSignature" are removed.
C39_ClearsAllAndOnlyPrefixed ==
    /\ storage.op = "PublicKeyStorage.clear()"
       => RemovedAllAndOnly(PUBLIC_KEY_CACHE_PREFIX)
    /\ ClearAllRemovesSignatures

(***************************************************************************)
(* Properties of the summary page (SpecSummary).                           *)
(***************************************************************************)
\* The indices loadSummary has passed to getMetricsAtIndex.
IndicesRead == {summaryPage.read[k] : k \in DOMAIN summaryPage.read}

\* safe + moderate + high of the distribution shown.
Analyzed ==
    summaryPage.distribution.safe + summaryPage.distribution.moderate
        + summaryPage.distribution.high

\* What the page does: it reads the first min(count, 10) records, and a
\* record that fails is skipped.
FirstRecordsRead ==
    summaryPage.pc = "done" =>
        /\ IndicesRead = 0..(summaryPage.maxRecords - 1)
        /\ Analyzed <= summaryPage.maxRecords

\* C40: the distribution is computed from the last min(count, 10) records:
\* the records read are those at the indices count - min(count, 10) ..
\* count - 1, and with failed decryptions skipped safe + moderate + high is
\* at most min(count, 10).
C40_LastRecordsRead ==
    summaryPage.pc = "done" =>
        LET count == summaryPage.count
            n == IF count < 10 THEN count ELSE 10
        IN  /\ IndicesRead = (count - n)..(count - 1)
            /\ Analyzed <= n

(***************************************************************************)
(* Properties of the classifier (SpecClassify).                            *)
(***************************************************************************)
\* The reference tier of a scaled total.
ReferenceTier(total) ==
    IF total >= 1850 THEN 2 ELSE IF total >= 1110 THEN 1 ELSE 0

\* C4: for every scaled total the classifier produces, the tier is 2 from
\* 1850 on, 1 from 1110 up to 1849, and 0 below 1110 (non-strict at both
\* thresholds).
C4_TierOfTotal ==
    cPc = "done" =>
        cOut.ret.cautionWindow = ReferenceTier(cOut.trace.totalWeighted)

C4_Witness ==
    /\ cPc = "done"
    /\ cOut.trace.totalWeighted = 1110
    /\ cOut.ret.cautionWindow = 1

\* C5: for inputs (e,s,p) in [0,100]^3 the score is exactly
\* 12e + 10s + 15p, a value in 0..3700; (0,0,0) gives score 0 and tier 0,
\* (100,100,100) gives score 3700 and tier 2.
C5_ScoreIsWeightedSum ==
    (cPc = "done" /\ InRange(cIn)) =>
        LET r == cOut.ret
        IN  /\ r.riskScore = 12 * cIn[1] + 10 * cIn[2] + 15 * cIn[3]
            /\ r.riskScore \in 0..3700
            /\ (cIn = <<0, 0, 0>>) => (r.riskScore = 0 /\ r.cautionWindow = 0)
            /\ (cIn = <<100, 100, 100>>) =>
                   (r.riskScore = 3700 /\ r.cautionWindow = 2)

C5_Witness ==
    /\ cPc = "done"
    /\ cIn = <<100, 100, 100>>
    /\ cOut.ret.riskScore = 3700
    /\ cOut.ret.cautionWindow = 2

\* C6: for inputs in 0..100 no step of the classifier wraps: each 16-bit
\* product and partial sum equals the exact integer result and fits in 16
\* bits, and the widened score equals the 16-bit total.
C6_NoOverflow ==
    (cPc = "done" /\ InRange(cIn)) =>
        /\ cOut.trace.emotionalWeighted = 12 * cIn[1]
        /\ cOut.trace.socialWeighted = 10 * cIn[2]
        /\ cOut.trace.sleepWeighted = 15 * cIn[3]
        /\ cOut.trace.partialWeighted = cOut.trace.emotionalWeighted + cOut.trace.socialWeighted
        /\ cOut.trace.totalWeighted = cOut.trace.partialWeighted + cOut.trace.sleepWeighted
        /\ cOut.trace.totalWeighted < 2^16
        /\ cOut.trace.riskScore = cOut.trace.totalWeighted

C6_Witness ==
    /\ cPc = "done"
    /\ InRange(cIn)
    /\ cOut.trace.sleepWeighted = 1500
    /\ cOut.trace.totalWeighted = 3700

\* C31: no range is checked: for arbitrary unsigned 16-bit inputs (e,s,p)
\* each product and each partial sum is reduced modulo 2^16, the score is
\* (12e + 10s + 15p) mod 2^16 widened to 32 bits, and the tier is that of
\* this wrapped total, not of the unbounded weighted sum.
C31_WrappedScore ==
    (cPc = "done") =>
        LET t == cOut.trace
            sum == 12 * cIn[1] + 10 * cIn[2] + 15 * cIn[3]
        IN  /\ t.emotionalWeighted = (12 * cIn[1]) % 65536
            /\ t.socialWeighted = (10 * cIn[2]) % 65536
            /\ t.sleepWeighted = (15 * cIn[3]) % 65536
            /\ t.partialWeighted = (12 * cIn[1] + 10 * cIn[2]) % 65536
            /\ t.totalWeighted = sum % 65536
            /\ cOut.ret.riskScore = sum % 65536
            /\ cOut.ret.cautionWindow = ReferenceTier(sum % 65536)

\* 12 * 5462 = 65544 wraps to 8: the tier is 0, that of the sum would be 2.
C31_Witness ==
    /\ cPc = "done"
    /\ cIn = <<5462, 0, 0>>
    /\ cOut.ret.riskScore = 8
    /\ cOut.ret.cautionWindow = 0
    /\ ReferenceTier(12 * cIn[1] + 10 * cIn[2] + 15 * cIn[3]) = 2

=============================================================================
